---- MODULE Spec2Model ----
(***************************************************************************)
(* The cooperative thread scheduler (src/thread.rs) and the POSIX shims    *)
(* for mutexes, read-write locks, condition variables, threads and sleep   *)
(* (src/shims/sync.rs, src/shims/thread.rs) as one state machine.          *)
(*                                                                         *)
(* The interpreter loop alternates schedule() with the scheduled action.   *)
(* Every shim is a state transformer on the machine record `st`; a fatal   *)
(* error (throw_*, a failed assert!/unwrap) sets st.err and keeps whatever *)
(* the handler had already written, because nothing is rolled back.        *)
(***************************************************************************)
EXTENDS Integers, Sequences, FiniteSets, TLC

VARIABLES
    threads,              \* ThreadManager::threads: ThreadId -> Thread
    active_thread,        \* ThreadManager::active_thread
    yield_active_thread,  \* ThreadManager::yield_active_thread
    timeout_callbacks,    \* ThreadManager::timeout_callbacks
    mutexes,              \* SynchronizationState: MutexId -> Mutex
    rwlocks,              \* SynchronizationState: RwLockId -> RwLock
    condvars,             \* SynchronizationState: CondvarId -> Condvar
    mutex_mem,            \* guest pthread_mutex_t objects: id and kind fields
    rwlock_mem,           \* guest pthread_rwlock_t objects: id field
    cond_mem,             \* guest pthread_cond_t objects: id and clock fields
    slot,                 \* return slot (dest) of each thread's last timedwait
    now,                  \* the host clock, in ticks since time_anchor
    sched,                \* position of the interpreter loop
    err,                  \* the fatal error that stopped interpretation
    last,                 \* the operation executed by the last step
    fuel,                 \* shim calls the guest program may still make
    thread_local_alloc_ids, \* ThreadManager::thread_local_alloc_ids
    memory,               \* guest allocations: AllocId -> content
    pointers              \* pointers to statics that threads have shared

vars == <<threads, active_thread, yield_active_thread, timeout_callbacks,
          mutexes, rwlocks, condvars, mutex_mem, rwlock_mem, cond_mem,
          slot, now, sched, err, last, fuel, thread_local_alloc_ids, memory,
          pointers>>

----------------------------------------------------------------------------
(* Bounds of the model. *)

MaxThreads == 3
MaxTime == 1
MaxLockCount == 2
MaxOps == 7
MaxCondOps == 10
MaxPairs == 2
MaxValue == 1

(* The guest objects a program may hold in its memory. *)
MutexObjs == {"M1", "M2"}
RwLockObjs == {"R1"}
CondObjs == {"C1"}

----------------------------------------------------------------------------
(* Values. *)

MAIN_THREAD == 0

(* The statics of the guest program (tests/run-pass/concurrency/            *)
(* thread_locals.rs): A is #[thread_local], C is an ordinary static; both   *)
(* are initialised to 0.  Each static has the allocation id rustc gave it.  *)
Statics == {"A", "C"}
is_thread_local(def_id) == def_id = "A"
StaticAllocId(def_id) == IF def_id = "A" THEN 1 ELSE 2
StaticInit == 0

Enabled == <<"Enabled">>
BlockedOnJoin(t) == <<"BlockedOnJoin", t>>
BlockedOnSync == <<"BlockedOnSync">>
Terminated == <<"Terminated">>

ThreadDefault ==
    [state |-> Enabled, stack |-> 0, join_status |-> "Joinable"]

(* Option<T> and ScalarMaybeUndef are sets with at most one element. *)
None == {}
Some(x) == {x}
Undef == {}
The(s) == CHOOSE x \in s : TRUE

PTHREAD_MUTEX_NORMAL == "PTHREAD_MUTEX_NORMAL"
PTHREAD_MUTEX_ERRORCHECK == "PTHREAD_MUTEX_ERRORCHECK"
PTHREAD_MUTEX_RECURSIVE == "PTHREAD_MUTEX_RECURSIVE"
PTHREAD_MUTEX_DEFAULT == PTHREAD_MUTEX_NORMAL
CLOCK_REALTIME == "CLOCK_REALTIME"
CLOCK_MONOTONIC == "CLOCK_MONOTONIC"

MutexDefault == [owner |-> None, lock_count |-> 0, queue |-> <<>>]
RwLockDefault ==
    [writer |-> None, readers |-> <<>>, writer_queue |-> <<>>,
     reader_queue |-> <<>>]
CondvarDefault == [waiters |-> <<>>]

(* The machine as one record, so that a handler is a function on it. *)
Machine ==
    [threads |-> threads, active_thread |-> active_thread,
     yield_active_thread |-> yield_active_thread,
     timeout_callbacks |-> timeout_callbacks,
     mutexes |-> mutexes, rwlocks |-> rwlocks, condvars |-> condvars,
     mutex_mem |-> mutex_mem, rwlock_mem |-> rwlock_mem,
     cond_mem |-> cond_mem, slot |-> slot,
     thread_local_alloc_ids |-> thread_local_alloc_ids, memory |-> memory,
     pointers |-> pointers, err |-> "none", ret |-> "0"]

Ok(st) == st.err = "none"
Throw(st, e) == IF Ok(st) THEN [st EXCEPT !.err = e] ELSE st
Return(st, r) == IF Ok(st) THEN [st EXCEPT !.ret = r] ELSE st

ThreadIds(st) == DOMAIN st.threads

----------------------------------------------------------------------------
(* ThreadManager (src/thread.rs). *)

create_thread(st) ==
    LET new_thread_id == Cardinality(DOMAIN st.threads)
    IN [st EXCEPT !.threads =
            [i \in 0..new_thread_id |->
                IF i < new_thread_id THEN st.threads[i] ELSE ThreadDefault],
          !.slot = [i \in 0..new_thread_id |->
                IF i < new_thread_id THEN st.slot[i] ELSE "unset"]]

set_active_thread_id(st, id) ==
    IF ~Ok(st) THEN st
    ELSE IF id \notin ThreadIds(st) THEN Throw(st, "Panic")
    ELSE [st EXCEPT !.active_thread = id]

has_terminated(st, t) == st.threads[t].state = Terminated

detach_thread(st, id) ==
    IF ~Ok(st) THEN st
    ELSE IF st.threads[id].join_status # "Joinable" THEN Throw(st, "UB")
    ELSE [st EXCEPT !.threads[id].join_status = "Detached"]

(* A join that does not mark its target as joined. *)
join_thread_leaves_joinable(st, joined_thread_id) ==
    IF ~Ok(st) THEN st
    ELSE IF st.threads[joined_thread_id].join_status # "Joinable"
        THEN Throw(st, "UB")
    ELSE IF joined_thread_id = st.active_thread THEN Throw(st, "UB")
    ELSE IF \E t \in ThreadIds(st) :
                st.threads[t].state = BlockedOnJoin(joined_thread_id)
        THEN Throw(st, "Panic")
    ELSE IF st.threads[joined_thread_id].state # Terminated
        THEN [st EXCEPT !.threads[st.active_thread].state =
                            BlockedOnJoin(joined_thread_id)]
    ELSE st

(* A join that blocks the caller even when the target has terminated. *)
join_thread_always_blocks(st, joined_thread_id) ==
    IF ~Ok(st) THEN st
    ELSE IF st.threads[joined_thread_id].join_status # "Joinable"
        THEN Throw(st, "UB")
    ELSE IF joined_thread_id = st.active_thread THEN Throw(st, "UB")
    ELSE IF \E t \in ThreadIds(st) :
                st.threads[t].state = BlockedOnJoin(joined_thread_id)
        THEN Throw(st, "Panic")
    ELSE [st EXCEPT !.threads[joined_thread_id].join_status = "Joined",
                    !.threads[st.active_thread].state =
                        BlockedOnJoin(joined_thread_id)]

join_thread(st, joined_thread_id) ==
    IF ~Ok(st) THEN st
    ELSE IF st.threads[joined_thread_id].join_status # "Joinable"
        THEN Throw(st, "UB")
    ELSE IF joined_thread_id = st.active_thread THEN Throw(st, "UB")
    ELSE IF \E t \in ThreadIds(st) :
                st.threads[t].state = BlockedOnJoin(joined_thread_id)
        THEN Throw(st, "Panic")
    ELSE LET s1 == [st EXCEPT
                      !.threads[joined_thread_id].join_status = "Joined"]
         IN IF s1.threads[joined_thread_id].state # Terminated
            THEN [s1 EXCEPT !.threads[s1.active_thread].state =
                                BlockedOnJoin(joined_thread_id)]
            ELSE s1

block_thread(st, thread) ==
    IF ~Ok(st) THEN st
    ELSE IF st.threads[thread].state # Enabled
    THEN Throw(st, "Panic in block_thread")
    ELSE [st EXCEPT !.threads[thread].state = BlockedOnSync]

unblock_thread(st, thread) ==
    IF ~Ok(st) THEN st
    ELSE IF st.threads[thread].state # BlockedOnSync
    THEN Throw(st, "Panic in unblock_thread")
    ELSE [st EXCEPT !.threads[thread].state = Enabled]

yield_active_thread_op(st) == [st EXCEPT !.yield_active_thread = TRUE]

HasCallback(st, thread) ==
    \E c \in st.timeout_callbacks : c.thread = thread

register_timeout_callback(st, thread, call_time, callback) ==
    IF ~Ok(st) THEN st
    ELSE IF HasCallback(st, thread) THEN Throw(st, "Panic")
    ELSE [st EXCEPT !.timeout_callbacks =
            @ \cup {[thread |-> thread, call_time |-> call_time,
                     callback |-> callback]}]

unregister_timeout_callback_if_exists(st, thread) ==
    IF ~Ok(st) THEN st
    ELSE [st EXCEPT !.timeout_callbacks = {c \in @ : c.thread # thread}]

(* A readiness test that does not look at the clock. *)
ReadyCallbacks_ignores_clock(st, time) == st.timeout_callbacks

(* get_ready_callback: the threads are scanned in index order. *)
ReadyCallbacks(st, time) ==
    {c \in st.timeout_callbacks : time >= c.call_time}

(* A get_ready_callback that returns the ready callback due first. *)
get_ready_callback_earliest(st, time) ==
    LET ready == ReadyCallbacks(st, time)
    IN IF ready = {} THEN None
       ELSE Some(CHOOSE c \in ready :
                    \A d \in ready :
                        \/ c.call_time < d.call_time
                        \/ c.call_time = d.call_time /\ c.thread <= d.thread)

get_ready_callback(st, time) ==
    LET ready == ReadyCallbacks(st, time)
    IN IF ready = {} THEN None
       ELSE Some(CHOOSE c \in ready : \A d \in ready : c.thread <= d.thread)

(* TimeoutCallbackInfo::get_wait_time: the time left until call_time. *)
get_wait_time(c, time) == IF c.call_time > time THEN c.call_time - time ELSE 0

(* get_next_callback_wait_time: the wait time of the entry that the      *)
(* iteration over the hash table yields first, which may be any entry;   *)
(* the set holds every result the call can give.                         *)
get_next_callback_wait_time(st, time) ==
    IF st.timeout_callbacks = {} THEN {None}
    ELSE {Some(get_wait_time(c, time)) : c \in st.timeout_callbacks}

(* A lookup that ignores which thread is active. *)
get_thread_local_alloc_id_of_any_thread(st, def_id) ==
    IF \E k \in DOMAIN st.thread_local_alloc_ids : k[1] = def_id
    THEN Some(st.thread_local_alloc_ids[
             CHOOSE k \in DOMAIN st.thread_local_alloc_ids : k[1] = def_id])
    ELSE None

(* Thread-local statics: the side map (DefId, ThreadId) -> AllocId. *)
get_thread_local_alloc_id(st, def_id) ==
    IF <<def_id, st.active_thread>> \in DOMAIN st.thread_local_alloc_ids
    THEN Some(st.thread_local_alloc_ids[<<def_id, st.active_thread>>])
    ELSE None

set_thread_local_alloc_id(st, def_id, new_alloc_id) ==
    IF ~Ok(st) THEN st
    ELSE IF get_thread_local_alloc_id(st, def_id) # None
    THEN Throw(st, "Panic")
    ELSE [st EXCEPT !.thread_local_alloc_ids =
            [k \in DOMAIN @ \cup {<<def_id, st.active_thread>>} |->
                IF k \in DOMAIN @ THEN @[k] ELSE new_alloc_id]]

(* alloc_map.create_memory_alloc: a fresh allocation id for a copy of the *)
(* static's initial allocation.                                          *)
FreshAllocId(st) == Cardinality(DOMAIN st.memory) + 1

create_memory_alloc(st) ==
    [st EXCEPT !.memory =
        [id \in DOMAIN @ \cup {FreshAllocId(st)} |->
            IF id \in DOMAIN @ THEN @[id]
            ELSE [value |-> StaticInit, writer |-> None]]]

(* get_or_create_thread_local_alloc_id: the allocation id returned ... *)
ThreadLocalAllocId(st, def_id) ==
    IF get_thread_local_alloc_id(st, def_id) # None
    THEN The(get_thread_local_alloc_id(st, def_id))
    ELSE FreshAllocId(st)

(* ... and the machine after the call. *)
get_or_create_thread_local_alloc_id(st, def_id) ==
    IF ~Ok(st) THEN st
    ELSE IF get_thread_local_alloc_id(st, def_id) # None THEN st
    ELSE set_thread_local_alloc_id(create_memory_alloc(st), def_id,
                                   ThreadLocalAllocId(st, def_id))

(* remap_thread_local_alloc_ids on a pointer to the static def_id: the *)
(* allocation id the pointer gets, and the machine after the call.     *)
RemappedAllocId(st, def_id) ==
    IF is_thread_local(def_id) THEN ThreadLocalAllocId(st, def_id)
    ELSE StaticAllocId(def_id)

remap_thread_local_alloc_ids(st, def_id) ==
    IF is_thread_local(def_id)
    THEN get_or_create_thread_local_alloc_id(st, def_id)
    ELSE st

----------------------------------------------------------------------------
(* SynchronizationState (crate::sync): the interface the shims call. *)

mutex_create(st) ==
    [st EXCEPT !.mutexes =
        [i \in 1..(Cardinality(DOMAIN st.mutexes) + 1) |->
            IF i \in DOMAIN st.mutexes THEN st.mutexes[i] ELSE MutexDefault]]

mutex_is_locked(st, id) == st.mutexes[id].owner # None

mutex_get_owner(st, id) == The(st.mutexes[id].owner)

mutex_lock(st, id, thread) ==
    IF ~Ok(st) THEN st
    ELSE IF st.mutexes[id].owner = None
        THEN [st EXCEPT !.mutexes[id].owner = Some(thread),
                        !.mutexes[id].lock_count = 1]
    ELSE IF st.mutexes[id].owner = Some(thread)
        THEN [st EXCEPT !.mutexes[id].lock_count = @ + 1]
    ELSE Throw(st, "Panic")

(* mutex_unlock returns Option<(owner, new_count)>. *)
mutex_unlock_result(st, id) ==
    IF st.mutexes[id].owner = None THEN None
    ELSE Some(<<The(st.mutexes[id].owner), st.mutexes[id].lock_count - 1>>)

mutex_unlock(st, id) ==
    IF ~Ok(st) \/ st.mutexes[id].owner = None THEN st
    ELSE IF st.mutexes[id].lock_count = 1
        THEN [st EXCEPT !.mutexes[id].lock_count = 0,
                        !.mutexes[id].owner = None]
    ELSE [st EXCEPT !.mutexes[id].lock_count = @ - 1]

mutex_enqueue(st, id, thread) ==
    IF ~Ok(st) THEN st
    ELSE [st EXCEPT !.mutexes[id].queue = Append(@, thread)]

mutex_dequeue_result(st, id) ==
    IF st.mutexes[id].queue = <<>> THEN None
    ELSE Some(Head(st.mutexes[id].queue))

mutex_dequeue(st, id) ==
    IF ~Ok(st) \/ st.mutexes[id].queue = <<>> THEN st
    ELSE [st EXCEPT !.mutexes[id].queue = Tail(@)]

rwlock_create(st) ==
    [st EXCEPT !.rwlocks =
        [i \in 1..(Cardinality(DOMAIN st.rwlocks) + 1) |->
            IF i \in DOMAIN st.rwlocks THEN st.rwlocks[i] ELSE RwLockDefault]]

rwlock_is_write_locked(st, id) == st.rwlocks[id].writer # None

rwlock_is_locked(st, id) ==
    st.rwlocks[id].writer # None \/ DOMAIN st.rwlocks[id].readers # {}

rwlock_reader_add(st, id, reader) ==
    IF ~Ok(st) THEN st
    ELSE LET rs == st.rwlocks[id].readers
         IN [st EXCEPT !.rwlocks[id].readers =
                [t \in DOMAIN rs \cup {reader} |->
                    IF t = reader
                    THEN (IF t \in DOMAIN rs THEN rs[t] + 1 ELSE 1)
                    ELSE rs[t]]]

rwlock_reader_remove_result(st, id, reader) ==
    reader \in DOMAIN st.rwlocks[id].readers

rwlock_reader_remove(st, id, reader) ==
    IF ~Ok(st) \/ reader \notin DOMAIN st.rwlocks[id].readers THEN st
    ELSE LET rs == st.rwlocks[id].readers
         IN [st EXCEPT !.rwlocks[id].readers =
                [t \in {u \in DOMAIN rs : u # reader \/ rs[u] > 1} |->
                    IF t = reader THEN rs[t] - 1 ELSE rs[t]]]

rwlock_writer_set(st, id, writer) ==
    IF ~Ok(st) THEN st
    ELSE IF rwlock_is_locked(st, id) THEN Throw(st, "Panic")
    ELSE [st EXCEPT !.rwlocks[id].writer = Some(writer)]

rwlock_writer_remove_result(st, id) == st.rwlocks[id].writer

rwlock_writer_remove(st, id) ==
    IF ~Ok(st) THEN st ELSE [st EXCEPT !.rwlocks[id].writer = None]

rwlock_enqueue_reader(st, id, reader) ==
    IF ~Ok(st) THEN st
    ELSE [st EXCEPT !.rwlocks[id].reader_queue = Append(@, reader)]

rwlock_dequeue_reader_result(st, id) ==
    IF st.rwlocks[id].reader_queue = <<>> THEN None
    ELSE Some(Head(st.rwlocks[id].reader_queue))

rwlock_dequeue_reader(st, id) ==
    IF ~Ok(st) \/ st.rwlocks[id].reader_queue = <<>> THEN st
    ELSE [st EXCEPT !.rwlocks[id].reader_queue = Tail(@)]

rwlock_enqueue_writer(st, id, writer) ==
    IF ~Ok(st) THEN st
    ELSE [st EXCEPT !.rwlocks[id].writer_queue = Append(@, writer)]

rwlock_dequeue_writer_result(st, id) ==
    IF st.rwlocks[id].writer_queue = <<>> THEN None
    ELSE Some(Head(st.rwlocks[id].writer_queue))

rwlock_dequeue_writer(st, id) ==
    IF ~Ok(st) \/ st.rwlocks[id].writer_queue = <<>> THEN st
    ELSE [st EXCEPT !.rwlocks[id].writer_queue = Tail(@)]

condvar_create(st) ==
    [st EXCEPT !.condvars =
        [i \in 1..(Cardinality(DOMAIN st.condvars) + 1) |->
            IF i \in DOMAIN st.condvars THEN st.condvars[i]
            ELSE CondvarDefault]]

condvar_is_awaited(st, id) == st.condvars[id].waiters # <<>>

condvar_wait(st, id, thread, mutex) ==
    IF ~Ok(st) THEN st
    ELSE [st EXCEPT !.condvars[id].waiters = Append(@, <<thread, mutex>>)]

condvar_signal_result(st, id) ==
    IF st.condvars[id].waiters = <<>> THEN None
    ELSE Some(Head(st.condvars[id].waiters))

condvar_signal(st, id) ==
    IF ~Ok(st) \/ st.condvars[id].waiters = <<>> THEN st
    ELSE [st EXCEPT !.condvars[id].waiters = Tail(@)]

condvar_remove_waiter(st, id, thread) ==
    IF ~Ok(st) THEN st
    ELSE [st EXCEPT !.condvars[id].waiters =
            SelectSeq(@, LAMBDA w : w[1] # thread)]

----------------------------------------------------------------------------
(* Guest memory fields and lazy id allocation (src/shims/sync.rs). *)

mutex_get_kind(st, mutex_op) == st.mutex_mem[mutex_op].kind

mutex_set_kind(st, mutex_op, kind) ==
    IF ~Ok(st) THEN st ELSE [st EXCEPT !.mutex_mem[mutex_op].kind = kind]

mutex_get_id(st, mutex_op) == st.mutex_mem[mutex_op].id

mutex_set_id(st, mutex_op, id) ==
    IF ~Ok(st) THEN st ELSE [st EXCEPT !.mutex_mem[mutex_op].id = id]

(* An id lookup that allocates a new mutex at every call. *)
mutex_get_or_create_id_always_new(st, mutex_op) ==
    IF ~Ok(st) THEN st
    ELSE IF mutex_get_id(st, mutex_op) = Undef THEN Throw(st, "UB")
    ELSE LET s1 == mutex_create(st)
         IN mutex_set_id(s1, mutex_op, Some(Cardinality(DOMAIN s1.mutexes)))

(* The state after mutex_get_or_create_id; reading an undefined id fails. *)
mutex_get_or_create_id(st, mutex_op) ==
    IF ~Ok(st) THEN st
    ELSE IF mutex_get_id(st, mutex_op) = Undef THEN Throw(st, "UB")
    ELSE IF mutex_get_id(st, mutex_op) = Some(0)
        THEN LET s1 == mutex_create(st)
             IN mutex_set_id(s1, mutex_op,
                             Some(Cardinality(DOMAIN s1.mutexes)))
    ELSE st

(* The id mutex_get_or_create_id returned, read back from the state it left. *)
MutexId(st, mutex_op) == The(st.mutex_mem[mutex_op].id)

rwlock_get_id(st, rwlock_op) == st.rwlock_mem[rwlock_op].id

rwlock_set_id(st, rwlock_op, id) ==
    IF ~Ok(st) THEN st ELSE [st EXCEPT !.rwlock_mem[rwlock_op].id = id]

rwlock_get_or_create_id(st, rwlock_op) ==
    IF ~Ok(st) THEN st
    ELSE IF rwlock_get_id(st, rwlock_op) = Undef THEN Throw(st, "UB")
    ELSE IF rwlock_get_id(st, rwlock_op) = Some(0)
        THEN LET s1 == rwlock_create(st)
             IN rwlock_set_id(s1, rwlock_op,
                              Some(Cardinality(DOMAIN s1.rwlocks)))
    ELSE st

RwLockId(st, rwlock_op) == The(st.rwlock_mem[rwlock_op].id)

cond_get_id(st, cond_op) == st.cond_mem[cond_op].id

cond_set_id(st, cond_op, id) ==
    IF ~Ok(st) THEN st ELSE [st EXCEPT !.cond_mem[cond_op].id = id]

cond_get_or_create_id(st, cond_op) ==
    IF ~Ok(st) THEN st
    ELSE IF cond_get_id(st, cond_op) = Undef THEN Throw(st, "UB")
    ELSE IF cond_get_id(st, cond_op) = Some(0)
        THEN LET s1 == condvar_create(st)
             IN cond_set_id(s1, cond_op,
                            Some(Cardinality(DOMAIN s1.condvars)))
    ELSE st

CondvarId(st, cond_op) == The(st.cond_mem[cond_op].id)

cond_get_clock_id(st, cond_op) == st.cond_mem[cond_op].clock

cond_set_clock_id(st, cond_op, clock_id) ==
    IF ~Ok(st) THEN st ELSE [st EXCEPT !.cond_mem[cond_op].clock = clock_id]

----------------------------------------------------------------------------
(* Release and reacquire of the mutex of a condition variable. *)

(* A reacquire that wakes the waiter even when the mutex is held. *)
reacquire_cond_mutex_wakes(st, thread, mutex) ==
    IF ~Ok(st) THEN st
    ELSE IF mutex_is_locked(st, mutex) THEN unblock_thread(st, thread)
    ELSE unblock_thread(mutex_lock(st, mutex, thread), thread)

reacquire_cond_mutex(st, thread, mutex) ==
    IF ~Ok(st) THEN st
    ELSE IF mutex_is_locked(st, mutex) THEN mutex_enqueue(st, mutex, thread)
    ELSE unblock_thread(mutex_lock(st, mutex, thread), thread)

(* A release_cond_mutex that frees the mutex without handing it over. *)
release_cond_mutex_forgets_waiters(st, active, mutex) ==
    IF ~Ok(st) THEN st
    ELSE LET res == mutex_unlock_result(st, mutex)
             s1 == mutex_unlock(st, mutex)
         IN IF res = None THEN Throw(s1, "UB")
            ELSE IF The(res)[2] # 0 THEN Throw(s1, "Unsupported")
            ELSE IF The(res)[1] # active THEN Throw(s1, "UB")
            ELSE block_thread(s1, active)

release_cond_mutex(st, active, mutex) ==
    IF ~Ok(st) THEN st
    ELSE LET res == mutex_unlock_result(st, mutex)
             s1 == mutex_unlock(st, mutex)
         IN IF res = None THEN Throw(s1, "UB")
            ELSE IF The(res)[2] # 0 THEN Throw(s1, "Unsupported")
            ELSE IF The(res)[1] # active THEN Throw(s1, "UB")
            ELSE LET next == mutex_dequeue_result(s1, mutex)
                     s2 == IF next = None THEN s1
                           ELSE unblock_thread(
                                    mutex_lock(mutex_dequeue(s1, mutex),
                                               mutex, The(next)),
                                    The(next))
                 IN block_thread(s2, active)

----------------------------------------------------------------------------
(* pthread_mutex_* (src/shims/sync.rs). *)

pthread_mutex_init(st, mutex_op, attr) ==
    LET kind == IF attr = "NULL" THEN Some(PTHREAD_MUTEX_DEFAULT)
                ELSE Some(attr)
        s1 == mutex_get_or_create_id(st, mutex_op)
    IN Return(mutex_set_kind(s1, mutex_op, kind), "0")

(* A lock that counts the relock of an ERRORCHECK mutex before refusing it. *)
pthread_mutex_lock_counts_refusal(st, mutex_op) ==
    LET kind == mutex_get_kind(st, mutex_op)
        s1 == mutex_get_or_create_id(st, mutex_op)
        id == MutexId(s1, mutex_op)
        active == st.active_thread
    IN IF kind = Undef THEN Throw(st, "UB")
       ELSE IF ~Ok(s1) THEN s1
       ELSE IF mutex_is_locked(s1, id)
       THEN IF mutex_get_owner(s1, id) # active
            THEN Return(mutex_enqueue(block_thread(s1, active), id, active),
                        "0")
            ELSE IF kind = Some(PTHREAD_MUTEX_NORMAL)
                THEN Throw(s1, "Deadlock")
            ELSE IF kind = Some(PTHREAD_MUTEX_ERRORCHECK)
                THEN Return(mutex_lock(s1, id, active), "EDEADLK")
            ELSE IF kind = Some(PTHREAD_MUTEX_RECURSIVE)
                THEN Return(mutex_lock(s1, id, active), "0")
            ELSE Throw(s1, "UB")
       ELSE Return(mutex_lock(s1, id, active), "0")

(* A lock that puts a blocked caller at the head of the waiter queue. *)
pthread_mutex_lock_pushes_front(st, mutex_op) ==
    LET kind == mutex_get_kind(st, mutex_op)
        s1 == mutex_get_or_create_id(st, mutex_op)
        id == MutexId(s1, mutex_op)
        active == st.active_thread
        s2 == block_thread(s1, active)
    IN IF kind = Undef THEN Throw(st, "UB")
       ELSE IF ~Ok(s1) THEN s1
       ELSE IF mutex_is_locked(s1, id)
       THEN IF mutex_get_owner(s1, id) # active
            THEN Return([s2 EXCEPT !.mutexes[id].queue = <<active>> \o @],
                        "0")
            ELSE IF kind = Some(PTHREAD_MUTEX_NORMAL)
                THEN Throw(s1, "Deadlock")
            ELSE IF kind = Some(PTHREAD_MUTEX_ERRORCHECK)
                THEN Return(s1, "EDEADLK")
            ELSE IF kind = Some(PTHREAD_MUTEX_RECURSIVE)
                THEN Return(mutex_lock(s1, id, active), "0")
            ELSE Throw(s1, "UB")
       ELSE Return(mutex_lock(s1, id, active), "0")

(* A lock that queues the owner of a NORMAL mutex behind itself. *)
pthread_mutex_lock_queues_owner(st, mutex_op) ==
    LET kind == mutex_get_kind(st, mutex_op)
        s1 == mutex_get_or_create_id(st, mutex_op)
        id == MutexId(s1, mutex_op)
        active == st.active_thread
    IN IF kind = Undef THEN Throw(st, "UB")
       ELSE IF ~Ok(s1) THEN s1
       ELSE IF mutex_is_locked(s1, id)
       THEN IF mutex_get_owner(s1, id) # active
                \/ kind = Some(PTHREAD_MUTEX_NORMAL)
            THEN Return(mutex_enqueue(block_thread(s1, active), id, active),
                        "0")
            ELSE IF kind = Some(PTHREAD_MUTEX_ERRORCHECK)
                THEN Return(s1, "EDEADLK")
            ELSE IF kind = Some(PTHREAD_MUTEX_RECURSIVE)
                THEN Return(mutex_lock(s1, id, active), "0")
            ELSE Throw(s1, "UB")
       ELSE Return(mutex_lock(s1, id, active), "0")

pthread_mutex_lock(st, mutex_op) ==
    LET kind == mutex_get_kind(st, mutex_op)
        s1 == mutex_get_or_create_id(st, mutex_op)
        id == MutexId(s1, mutex_op)
        active == st.active_thread
    IN IF kind = Undef THEN Throw(st, "UB")
       ELSE IF ~Ok(s1) THEN s1
       ELSE IF mutex_is_locked(s1, id)
       THEN IF mutex_get_owner(s1, id) # active
            THEN Return(mutex_enqueue(block_thread(s1, active), id, active),
                        "0")
            ELSE IF kind = Some(PTHREAD_MUTEX_NORMAL)
                THEN Throw(s1, "Deadlock")
            ELSE IF kind = Some(PTHREAD_MUTEX_ERRORCHECK)
                THEN Return(s1, "EDEADLK")
            ELSE IF kind = Some(PTHREAD_MUTEX_RECURSIVE)
                THEN Return(mutex_lock(s1, id, active), "0")
            ELSE Throw(s1, "UB")
       ELSE Return(mutex_lock(s1, id, active), "0")

(* A trylock that waits for a mutex held by another thread. *)
pthread_mutex_trylock_waits(st, mutex_op) ==
    LET kind == mutex_get_kind(st, mutex_op)
        s1 == mutex_get_or_create_id(st, mutex_op)
        id == MutexId(s1, mutex_op)
        active == st.active_thread
    IN IF kind = Undef THEN Throw(st, "UB")
       ELSE IF ~Ok(s1) THEN s1
       ELSE IF mutex_is_locked(s1, id)
       THEN IF mutex_get_owner(s1, id) # active
            THEN Return(mutex_enqueue(block_thread(s1, active), id, active),
                        "EBUSY")
            ELSE IF kind = Some(PTHREAD_MUTEX_NORMAL)
                    \/ kind = Some(PTHREAD_MUTEX_ERRORCHECK)
                THEN Return(s1, "EBUSY")
            ELSE IF kind = Some(PTHREAD_MUTEX_RECURSIVE)
                THEN Return(mutex_lock(s1, id, active), "0")
            ELSE Throw(s1, "UB")
       ELSE Return(mutex_lock(s1, id, active), "0")

pthread_mutex_trylock(st, mutex_op) ==
    LET kind == mutex_get_kind(st, mutex_op)
        s1 == mutex_get_or_create_id(st, mutex_op)
        id == MutexId(s1, mutex_op)
        active == st.active_thread
    IN IF kind = Undef THEN Throw(st, "UB")
       ELSE IF ~Ok(s1) THEN s1
       ELSE IF mutex_is_locked(s1, id)
       THEN IF mutex_get_owner(s1, id) # active
            THEN Return(s1, "EBUSY")
            ELSE IF kind = Some(PTHREAD_MUTEX_NORMAL)
                    \/ kind = Some(PTHREAD_MUTEX_ERRORCHECK)
                THEN Return(s1, "EBUSY")
            ELSE IF kind = Some(PTHREAD_MUTEX_RECURSIVE)
                THEN Return(mutex_lock(s1, id, active), "0")
            ELSE Throw(s1, "UB")
       ELSE Return(mutex_lock(s1, id, active), "0")

(* An unlock that answers EPERM to a thread that does not own an *)
(* ERRORCHECK mutex.                                             *)
pthread_mutex_unlock_refuses_stranger(st, mutex_op) ==
    LET kind == mutex_get_kind(st, mutex_op)
        s1 == mutex_get_or_create_id(st, mutex_op)
        id == MutexId(s1, mutex_op)
        res == mutex_unlock_result(s1, id)
        s2 == mutex_unlock(s1, id)
    IN IF kind = Undef THEN Throw(st, "UB")
       ELSE IF ~Ok(s1) THEN s1
       ELSE IF res # None
       THEN IF The(res)[1] # st.active_thread
            THEN IF kind = Some(PTHREAD_MUTEX_ERRORCHECK)
                 THEN Return(s1, "EPERM")
                 ELSE Throw(s2, "UB")
            ELSE IF The(res)[2] = 0
            THEN LET next == mutex_dequeue_result(s2, id)
                 IN IF next # None
                    THEN Return(unblock_thread(
                                    mutex_lock(mutex_dequeue(s2, id), id,
                                               The(next)),
                                    The(next)), "0")
                    ELSE Return(s2, "0")
            ELSE Return(s2, "0")
       ELSE IF kind = Some(PTHREAD_MUTEX_NORMAL) THEN Throw(s2, "UB")
            ELSE IF kind = Some(PTHREAD_MUTEX_ERRORCHECK)
                THEN Return(s2, "EPERM")
            ELSE IF kind = Some(PTHREAD_MUTEX_RECURSIVE)
                THEN Return(s2, "EPERM")
            ELSE Throw(s2, "UB")

(* An unlock that wakes the first waiter while the owner still holds on. *)
pthread_mutex_unlock_wakes_early(st, mutex_op) ==
    LET kind == mutex_get_kind(st, mutex_op)
        s1 == mutex_get_or_create_id(st, mutex_op)
        id == MutexId(s1, mutex_op)
        res == mutex_unlock_result(s1, id)
        s2 == mutex_unlock(s1, id)
        next == mutex_dequeue_result(s2, id)
    IN IF kind = Undef THEN Throw(st, "UB")
       ELSE IF ~Ok(s1) THEN s1
       ELSE IF res # None
       THEN IF The(res)[1] # st.active_thread THEN Throw(s2, "UB")
            ELSE IF The(res)[2] = 0
            THEN IF next # None
                 THEN Return(unblock_thread(
                                 mutex_lock(mutex_dequeue(s2, id), id,
                                            The(next)),
                                 The(next)), "0")
                 ELSE Return(s2, "0")
            ELSE IF next # None
                 THEN Return(unblock_thread(s2, The(next)), "0")
                 ELSE Return(s2, "0")
       ELSE IF kind = Some(PTHREAD_MUTEX_NORMAL) THEN Throw(s2, "UB")
            ELSE IF kind = Some(PTHREAD_MUTEX_ERRORCHECK)
                THEN Return(s2, "EPERM")
            ELSE IF kind = Some(PTHREAD_MUTEX_RECURSIVE)
                THEN Return(s2, "EPERM")
            ELSE Throw(s2, "UB")

(* An unlock that wakes the next waiter without giving it the mutex. *)
pthread_mutex_unlock_wakes_only(st, mutex_op) ==
    LET kind == mutex_get_kind(st, mutex_op)
        s1 == mutex_get_or_create_id(st, mutex_op)
        id == MutexId(s1, mutex_op)
        res == mutex_unlock_result(s1, id)
        s2 == mutex_unlock(s1, id)
    IN IF kind = Undef THEN Throw(st, "UB")
       ELSE IF ~Ok(s1) THEN s1
       ELSE IF res # None
       THEN IF The(res)[1] # st.active_thread THEN Throw(s2, "UB")
            ELSE IF The(res)[2] = 0
            THEN LET next == mutex_dequeue_result(s2, id)
                 IN IF next # None
                    THEN Return(unblock_thread(mutex_dequeue(s2, id),
                                               The(next)), "0")
                    ELSE Return(s2, "0")
            ELSE Return(s2, "0")
       ELSE IF kind = Some(PTHREAD_MUTEX_NORMAL) THEN Throw(s2, "UB")
            ELSE IF kind = Some(PTHREAD_MUTEX_ERRORCHECK)
                THEN Return(s2, "EPERM")
            ELSE IF kind = Some(PTHREAD_MUTEX_RECURSIVE)
                THEN Return(s2, "EPERM")
            ELSE Throw(s2, "UB")

(* An unlock that leaves the woken thread in the waiter queue. *)
pthread_mutex_unlock_keeps_queue(st, mutex_op) ==
    LET kind == mutex_get_kind(st, mutex_op)
        s1 == mutex_get_or_create_id(st, mutex_op)
        id == MutexId(s1, mutex_op)
        res == mutex_unlock_result(s1, id)
        s2 == mutex_unlock(s1, id)
    IN IF kind = Undef THEN Throw(st, "UB")
       ELSE IF ~Ok(s1) THEN s1
       ELSE IF res # None
       THEN IF The(res)[1] # st.active_thread THEN Throw(s2, "UB")
            ELSE IF The(res)[2] = 0
            THEN LET next == mutex_dequeue_result(s2, id)
                 IN IF next # None
                    THEN Return(unblock_thread(
                                    mutex_lock(s2, id,
                                               The(next)),
                                    The(next)), "0")
                    ELSE Return(s2, "0")
            ELSE Return(s2, "0")
       ELSE IF kind = Some(PTHREAD_MUTEX_NORMAL) THEN Throw(s2, "UB")
            ELSE IF kind = Some(PTHREAD_MUTEX_ERRORCHECK)
                THEN Return(s2, "EPERM")
            ELSE IF kind = Some(PTHREAD_MUTEX_RECURSIVE)
                THEN Return(s2, "EPERM")
            ELSE Throw(s2, "UB")

pthread_mutex_unlock(st, mutex_op) ==
    LET kind == mutex_get_kind(st, mutex_op)
        s1 == mutex_get_or_create_id(st, mutex_op)
        id == MutexId(s1, mutex_op)
        res == mutex_unlock_result(s1, id)
        s2 == mutex_unlock(s1, id)
    IN IF kind = Undef THEN Throw(st, "UB")
       ELSE IF ~Ok(s1) THEN s1
       ELSE IF res # None
       THEN IF The(res)[1] # st.active_thread THEN Throw(s2, "UB")
            ELSE IF The(res)[2] = 0
            THEN LET next == mutex_dequeue_result(s2, id)
                 IN IF next # None
                    THEN Return(unblock_thread(
                                    mutex_lock(mutex_dequeue(s2, id), id,
                                               The(next)),
                                    The(next)), "0")
                    ELSE Return(s2, "0")
            ELSE Return(s2, "0")
       ELSE IF kind = Some(PTHREAD_MUTEX_NORMAL) THEN Throw(s2, "UB")
            ELSE IF kind = Some(PTHREAD_MUTEX_ERRORCHECK)
                THEN Return(s2, "EPERM")
            ELSE IF kind = Some(PTHREAD_MUTEX_RECURSIVE)
                THEN Return(s2, "EPERM")
            ELSE Throw(s2, "UB")

(* A destroy that does not look whether the mutex is locked. *)
pthread_mutex_destroy_unchecked(st, mutex_op) ==
    LET s1 == mutex_get_or_create_id(st, mutex_op)
    IN IF ~Ok(s1) THEN s1
       ELSE Return(mutex_set_id(mutex_set_kind(s1, mutex_op, Undef),
                                mutex_op, Undef), "0")

pthread_mutex_destroy(st, mutex_op) ==
    LET s1 == mutex_get_or_create_id(st, mutex_op)
        id == MutexId(s1, mutex_op)
    IN IF ~Ok(s1) THEN s1
       ELSE IF mutex_is_locked(s1, id) THEN Throw(s1, "UB")
       ELSE Return(mutex_set_id(mutex_set_kind(s1, mutex_op, Undef),
                                mutex_op, Undef), "0")

----------------------------------------------------------------------------
(* pthread_rwlock_* (src/shims/sync.rs). *)

(* A read lock that also waits while writers are queued. *)
pthread_rwlock_rdlock_defers_to_writers(st, rwlock_op) ==
    LET s1 == rwlock_get_or_create_id(st, rwlock_op)
        id == RwLockId(s1, rwlock_op)
        active == st.active_thread
    IN IF ~Ok(s1) THEN s1
       ELSE IF rwlock_is_write_locked(s1, id)
               \/ s1.rwlocks[id].writer_queue # <<>>
       THEN Return(block_thread(rwlock_enqueue_reader(s1, id, active),
                                active), "0")
       ELSE Return(rwlock_reader_add(s1, id, active), "0")

(* A read lock granted without looking at the writer. *)
pthread_rwlock_rdlock_unchecked(st, rwlock_op) ==
    LET s1 == rwlock_get_or_create_id(st, rwlock_op)
        id == RwLockId(s1, rwlock_op)
        active == st.active_thread
    IN IF ~Ok(s1) THEN s1
       ELSE Return(rwlock_reader_add(s1, id, active), "0")

pthread_rwlock_rdlock(st, rwlock_op) ==
    LET s1 == rwlock_get_or_create_id(st, rwlock_op)
        id == RwLockId(s1, rwlock_op)
        active == st.active_thread
    IN IF ~Ok(s1) THEN s1
       ELSE IF rwlock_is_write_locked(s1, id)
       THEN Return(block_thread(rwlock_enqueue_reader(s1, id, active),
                                active), "0")
       ELSE Return(rwlock_reader_add(s1, id, active), "0")

pthread_rwlock_tryrdlock(st, rwlock_op) ==
    LET s1 == rwlock_get_or_create_id(st, rwlock_op)
        id == RwLockId(s1, rwlock_op)
        active == st.active_thread
    IN IF ~Ok(s1) THEN s1
       ELSE IF rwlock_is_write_locked(s1, id) THEN Return(s1, "EBUSY")
       ELSE Return(rwlock_reader_add(s1, id, active), "0")

pthread_rwlock_wrlock(st, rwlock_op) ==
    LET s1 == rwlock_get_or_create_id(st, rwlock_op)
        id == RwLockId(s1, rwlock_op)
        active == st.active_thread
    IN IF ~Ok(s1) THEN s1
       ELSE IF rwlock_is_locked(s1, id)
       THEN Return(rwlock_enqueue_writer(block_thread(s1, active), id,
                                         active), "0")
       ELSE Return(rwlock_writer_set(s1, id, active), "0")

pthread_rwlock_trywrlock(st, rwlock_op) ==
    LET s1 == rwlock_get_or_create_id(st, rwlock_op)
        id == RwLockId(s1, rwlock_op)
        active == st.active_thread
    IN IF ~Ok(s1) THEN s1
       ELSE IF rwlock_is_locked(s1, id) THEN Return(s1, "EBUSY")
       ELSE Return(rwlock_writer_set(s1, id, active), "0")

(* The reader queue drained by a writer's unlock: `while let Some(reader)`. *)
RECURSIVE DrainReaders(_, _)
DrainReaders(st, id) ==
    IF ~Ok(st) THEN st
    ELSE LET reader == rwlock_dequeue_reader_result(st, id)
         IN IF reader = None THEN st
            ELSE DrainReaders(
                     rwlock_reader_add(
                         unblock_thread(rwlock_dequeue_reader(st, id),
                                        The(reader)),
                         id, The(reader)),
                     id)

(* A writer's unlock that serves the queued readers before the writers. *)
pthread_rwlock_unlock_prefers_readers(st, rwlock_op) ==
    LET s1 == rwlock_get_or_create_id(st, rwlock_op)
        id == RwLockId(s1, rwlock_op)
        active == st.active_thread
    IN IF ~Ok(s1) THEN s1
       ELSE IF rwlock_reader_remove_result(s1, id, active)
       THEN LET s2 == rwlock_reader_remove(s1, id, active)
                writer == rwlock_dequeue_writer_result(s2, id)
            IN IF rwlock_is_locked(s2, id) /\ writer # None
               THEN Return(rwlock_writer_set(
                               unblock_thread(rwlock_dequeue_writer(s2, id),
                                              The(writer)),
                               id, The(writer)), "0")
               ELSE Return(s2, "0")
       ELSE LET s2 == rwlock_writer_remove(s1, id)
            IN IF Some(active) = rwlock_writer_remove_result(s1, id)
               THEN LET writer == rwlock_dequeue_writer_result(s2, id)
                    IN IF rwlock_dequeue_reader_result(s2, id) = None
                          /\ writer # None
                       THEN Return(rwlock_writer_set(
                                       unblock_thread(
                                           rwlock_dequeue_writer(s2, id),
                                           The(writer)),
                                       id, The(writer)), "0")
                       ELSE Return(DrainReaders(s2, id), "0")
               ELSE Throw(s2, "UB")

pthread_rwlock_unlock(st, rwlock_op) ==
    LET s1 == rwlock_get_or_create_id(st, rwlock_op)
        id == RwLockId(s1, rwlock_op)
        active == st.active_thread
    IN IF ~Ok(s1) THEN s1
       ELSE IF rwlock_reader_remove_result(s1, id, active)
       THEN LET s2 == rwlock_reader_remove(s1, id, active)
                writer == rwlock_dequeue_writer_result(s2, id)
            IN IF rwlock_is_locked(s2, id) /\ writer # None
               THEN Return(rwlock_writer_set(
                               unblock_thread(rwlock_dequeue_writer(s2, id),
                                              The(writer)),
                               id, The(writer)), "0")
               ELSE Return(s2, "0")
       ELSE LET s2 == rwlock_writer_remove(s1, id)
            IN IF Some(active) = rwlock_writer_remove_result(s1, id)
               THEN LET writer == rwlock_dequeue_writer_result(s2, id)
                    IN IF writer # None
                       THEN Return(rwlock_writer_set(
                                       unblock_thread(
                                           rwlock_dequeue_writer(s2, id),
                                           The(writer)),
                                       id, The(writer)), "0")
                       ELSE Return(DrainReaders(s2, id), "0")
               ELSE Throw(s2, "UB")

pthread_rwlock_destroy(st, rwlock_op) ==
    LET s1 == rwlock_get_or_create_id(st, rwlock_op)
        id == RwLockId(s1, rwlock_op)
    IN IF ~Ok(s1) THEN s1
       ELSE IF rwlock_is_locked(s1, id) THEN Throw(s1, "UB")
       ELSE Return(rwlock_set_id(s1, rwlock_op, Undef), "0")

----------------------------------------------------------------------------
(* pthread_cond_* (src/shims/sync.rs). *)

pthread_cond_init(st, cond_op, attr) ==
    LET clock_id == IF attr = "NULL" THEN Some(CLOCK_REALTIME) ELSE Some(attr)
        s1 == cond_get_or_create_id(st, cond_op)
    IN Return(cond_set_clock_id(s1, cond_op, clock_id), "0")

(* A signal that leaves the waiter's timeout registered. *)
SignalOne_keeps_timeout(st, id) ==
    LET w == condvar_signal_result(st, id)
    IN IF ~Ok(st) \/ w = None THEN st
       ELSE reacquire_cond_mutex(condvar_signal(st, id), The(w)[1], The(w)[2])

(* One round of signal: pop the head waiter, reacquire, drop its timeout. *)
SignalOne(st, id) ==
    LET w == condvar_signal_result(st, id)
    IN IF ~Ok(st) \/ w = None THEN st
       ELSE unregister_timeout_callback_if_exists(
                reacquire_cond_mutex(condvar_signal(st, id),
                                     The(w)[1], The(w)[2]),
                The(w)[1])

(* A signal that, finding no waiter, makes its caller wait for one. *)
pthread_cond_signal_blocks_without_waiter(st, cond_op) ==
    LET s1 == cond_get_or_create_id(st, cond_op)
        id == CondvarId(s1, cond_op)
    IN IF ~Ok(s1) THEN s1
       ELSE IF condvar_signal_result(s1, id) = None
       THEN Return(block_thread(s1, st.active_thread), "0")
       ELSE Return(SignalOne(s1, id), "0")

pthread_cond_signal(st, cond_op) ==
    LET s1 == cond_get_or_create_id(st, cond_op)
        id == CondvarId(s1, cond_op)
    IN IF ~Ok(s1) THEN s1 ELSE Return(SignalOne(s1, id), "0")

RECURSIVE SignalAll(_, _)
SignalAll(st, id) ==
    IF ~Ok(st) \/ condvar_signal_result(st, id) = None THEN st
    ELSE SignalAll(SignalOne(st, id), id)

(* A broadcast that wakes the first waiter only. *)
pthread_cond_broadcast_wakes_one(st, cond_op) ==
    LET s1 == cond_get_or_create_id(st, cond_op)
        id == CondvarId(s1, cond_op)
    IN IF ~Ok(s1) THEN s1 ELSE Return(SignalOne(s1, id), "0")

pthread_cond_broadcast(st, cond_op) ==
    LET s1 == cond_get_or_create_id(st, cond_op)
        id == CondvarId(s1, cond_op)
    IN IF ~Ok(s1) THEN s1 ELSE Return(SignalAll(s1, id), "0")

(* A wait that blocks without releasing the mutex. *)
pthread_cond_wait_keeps_mutex(st, cond_op, mutex_op) ==
    LET s1 == cond_get_or_create_id(st, cond_op)
        s2 == mutex_get_or_create_id(s1, mutex_op)
        id == CondvarId(s2, cond_op)
        mutex_id == MutexId(s2, mutex_op)
        active == st.active_thread
    IN IF ~Ok(s2) THEN s2
       ELSE Return(condvar_wait(block_thread(s2, active), id, active,
                                mutex_id), "0")

pthread_cond_wait(st, cond_op, mutex_op) ==
    LET s1 == cond_get_or_create_id(st, cond_op)
        s2 == mutex_get_or_create_id(s1, mutex_op)
        id == CondvarId(s2, cond_op)
        mutex_id == MutexId(s2, mutex_op)
        active == st.active_thread
    IN IF ~Ok(s2) THEN s2
       ELSE Return(condvar_wait(release_cond_mutex(s2, active, mutex_id),
                                id, active, mutex_id), "0")

(* The closure registered by pthread_cond_timedwait. *)
CondTimeout(id, mutex_id) ==
    [kind |-> "timedwait", cond |-> id, mutex |-> mutex_id]

pthread_cond_timedwait(st, cond_op, mutex_op, abstime) ==
    LET s1 == cond_get_or_create_id(st, cond_op)
        s2 == mutex_get_or_create_id(s1, mutex_op)
        id == CondvarId(s2, cond_op)
        mutex_id == MutexId(s2, mutex_op)
        active == st.active_thread
        s3 == condvar_wait(release_cond_mutex(s2, active, mutex_id),
                           id, active, mutex_id)
        s4 == IF Ok(s3) THEN [s3 EXCEPT !.slot[active] = "0"] ELSE s3
        clock_id == cond_get_clock_id(s4, cond_op)
    IN IF ~Ok(s2) THEN s2
       ELSE IF ~Ok(s4) THEN s4
       ELSE IF clock_id = Undef THEN Throw(s4, "UB")
       ELSE IF clock_id = Some(CLOCK_REALTIME)
               \/ clock_id = Some(CLOCK_MONOTONIC)
       THEN register_timeout_callback(s4, active, abstime,
                                      CondTimeout(id, mutex_id))
       ELSE Throw(s4, "UB")

pthread_cond_destroy(st, cond_op) ==
    LET s1 == cond_get_or_create_id(st, cond_op)
        id == CondvarId(s1, cond_op)
    IN IF ~Ok(s1) THEN s1
       ELSE IF condvar_is_awaited(s1, id) THEN Throw(s1, "UB")
       ELSE Return(cond_set_clock_id(cond_set_id(s1, cond_op, Undef),
                                     cond_op, Undef), "0")

----------------------------------------------------------------------------
(* pthread_create/join/detach, sched_yield, nanosleep *)
(* (src/shims/thread.rs).                             *)

(* Guest accesses to memory (the interpreter's memory model): a read or *)
(* write of an allocation, recording the thread that wrote it last.     *)
memory_read(st, id) ==
    IF ~Ok(st) THEN st ELSE Return(st, ToString(st.memory[id].value))

memory_write(st, id, v) ==
    IF ~Ok(st) THEN st
    ELSE Return([st EXCEPT !.memory[id] =
                    [value |-> v, writer |-> Some(st.active_thread)]], "")

(* The guest reads or writes the static def_id by name, or shares a *)
(* pointer to it with the other threads (Sender(&mut A)).           *)
static_read(st, def_id) ==
    memory_read(remap_thread_local_alloc_ids(st, def_id),
                RemappedAllocId(st, def_id))

static_write(st, def_id, v) ==
    memory_write(remap_thread_local_alloc_ids(st, def_id),
                 RemappedAllocId(st, def_id), v)

static_share(st, def_id) ==
    LET s1 == remap_thread_local_alloc_ids(st, def_id)
    IN IF ~Ok(s1) THEN s1
       ELSE Return([s1 EXCEPT !.pointers =
                        @ \cup {RemappedAllocId(st, def_id)}],
                   ToString(RemappedAllocId(st, def_id)))

(* A pthread_create that leaves the new thread active. *)
pthread_create_stays_on_child(st) ==
    LET s1 == create_thread(st)
        new_thread_id == Cardinality(DOMAIN st.threads)
        s2 == set_active_thread_id(s1, new_thread_id)
        s3 == [s2 EXCEPT !.threads[s2.active_thread].stack = @ + 1]
    IN Return(s3, "0")

pthread_create(st) ==
    LET s1 == create_thread(st)
        new_thread_id == Cardinality(DOMAIN st.threads)
        s2 == set_active_thread_id(s1, new_thread_id)
        \* call_function pushes the first frame on the active (new) thread
        s3 == [s2 EXCEPT !.threads[s2.active_thread].stack = @ + 1]
    IN Return(set_active_thread_id(s3, st.active_thread), "0")

pthread_join(st, thread, retval_is_null) ==
    IF ~retval_is_null THEN Throw(st, "Unsupported")
    ELSE Return(join_thread(st, thread), "0")

pthread_detach(st, thread) == Return(detach_thread(st, thread), "0")

sched_yield(st) == Return(yield_active_thread_op(st), "0")

SleepTimeout == [kind |-> "nanosleep", cond |-> 0, mutex |-> 0]

nanosleep(st, duration, time) ==
    LET active == st.active_thread
        timeout == time + duration
    IN Return(register_timeout_callback(block_thread(st, active), active,
                                        timeout, SleepTimeout), "0")

(* A timedwait closure that forgets to leave the condition variable. *)
RunCallback_keeps_waiter(st, c) ==
    IF c.callback.kind = "nanosleep" THEN unblock_thread(st, c.thread)
    ELSE LET s1 == reacquire_cond_mutex(st, c.thread, c.callback.mutex)
         IN IF Ok(s1) THEN [s1 EXCEPT !.slot[c.thread] = "ETIMEDOUT"] ELSE s1

(* A timedwait closure that leaves the return slot alone. *)
RunCallback_no_errno(st, c) ==
    IF c.callback.kind = "nanosleep" THEN unblock_thread(st, c.thread)
    ELSE condvar_remove_waiter(
             reacquire_cond_mutex(st, c.thread, c.callback.mutex),
             c.callback.cond, c.thread)

(* Running a registered closure on the machine. *)
RunCallback(st, c) ==
    IF c.callback.kind = "nanosleep" THEN unblock_thread(st, c.thread)
    ELSE LET s1 == reacquire_cond_mutex(st, c.thread, c.callback.mutex)
             s2 == condvar_remove_waiter(s1, c.callback.cond, c.thread)
         IN IF Ok(s2) THEN [s2 EXCEPT !.slot[c.thread] = "ETIMEDOUT"] ELSE s2

(* The machine a ready callback is invoked on: its entry is taken out of *)
(* the table and its owner is made the active thread.                   *)
CallbackMachine(st, c) ==
    set_active_thread_id([st EXCEPT !.timeout_callbacks = @ \ {c}], c.thread)

(* A run_timeout_callback that does not switch back to the old thread. *)
run_timeout_callback_stays_on_owner(st, time) ==
    LET ready == get_ready_callback(st, time)
    IN IF ready = None THEN Throw(st, "Panic")
       ELSE RunCallback(CallbackMachine(st, The(ready)), The(ready))

(* A run_timeout_callback that leaves the callback registered. *)
run_timeout_callback_keeps_callback(st, time) ==
    LET ready == get_ready_callback(st, time)
    IN IF ready = None THEN Throw(st, "Panic")
       ELSE LET c == The(ready)
                s2 == set_active_thread_id(st, c.thread)
                s3 == RunCallback(s2, c)
            IN set_active_thread_id(s3, st.active_thread)

(* run_timeout_callback (src/thread.rs): state after, given the host clock. *)
run_timeout_callback(st, time) ==
    LET ready == get_ready_callback(st, time)
    IN IF ready = None THEN Throw(st, "Panic")
       ELSE LET c == The(ready)
                s3 == RunCallback(CallbackMachine(st, c), c)
            IN set_active_thread_id(s3, st.active_thread)

----------------------------------------------------------------------------
(* ThreadManager::schedule (src/thread.rs): the machine after the call, the *)
(* SchedulingAction returned and the host clock after the sleep.            *)

Min(S) == CHOOSE x \in S : \A y \in S : x <= y

(* A scheduler that leaves the joiners of a terminated thread blocked. *)
schedule_forgets_joiners(st, time) ==
    LET active == st.active_thread
        others_done == \A t \in ThreadIds(st) : st.threads[t].state = Terminated
        candidates ==
            {id \in ThreadIds(st) :
                /\ st.threads[id].state = Enabled
                /\ (~st.yield_active_thread \/ id # active)}
        picked == IF candidates = {} THEN active ELSE Min(candidates)
        s1 == [st EXCEPT !.active_thread = picked,
                         !.yield_active_thread = FALSE]
    IN IF st.threads[active].state = Enabled /\ st.threads[active].stack = 0
       THEN [st |-> [st EXCEPT !.threads =
                        [t \in ThreadIds(st) |->
                            IF t = active
                            THEN [st.threads[t] EXCEPT !.state = Terminated]
                            ELSE st.threads[t]]],
             action |-> "ExecuteDtors", now |-> time]
       ELSE IF st.threads[MAIN_THREAD].state = Terminated
       THEN IF ~others_done
            THEN [st |-> Throw(st, "Unsupported"), action |-> "Error",
                  now |-> time]
            ELSE [st |-> st, action |-> "Stop", now |-> time]
       ELSE IF st.threads[active].state = Enabled /\ ~st.yield_active_thread
       THEN [st |-> st, action |-> "ExecuteStep", now |-> time]
       ELSE IF s1.threads[picked].state = Enabled
       THEN [st |-> s1, action |-> "ExecuteStep", now |-> time]
       ELSE IF others_done
       THEN [st |-> Throw(s1, "Panic"), action |-> "Error", now |-> time]
       ELSE IF s1.timeout_callbacks # {}
       THEN LET next_call_time ==
                    Min({c.call_time : c \in s1.timeout_callbacks})
            IN [st |-> s1, action |-> "ExecuteTimeoutCallback",
                now |-> IF next_call_time > time THEN next_call_time
                        ELSE time]
       ELSE [st |-> Throw(s1, "Deadlock"), action |-> "Error", now |-> time]

(* A scheduler that ends the program with main, whoever is still alive. *)
schedule_abandons_threads(st, time) ==
    LET active == st.active_thread
        others_done == \A t \in ThreadIds(st) : st.threads[t].state = Terminated
        candidates ==
            {id \in ThreadIds(st) :
                /\ st.threads[id].state = Enabled
                /\ (~st.yield_active_thread \/ id # active)}
        picked == IF candidates = {} THEN active ELSE Min(candidates)
        s1 == [st EXCEPT !.active_thread = picked,
                         !.yield_active_thread = FALSE]
    IN IF st.threads[active].state = Enabled /\ st.threads[active].stack = 0
       THEN [st |-> [st EXCEPT !.threads =
                        [t \in ThreadIds(st) |->
                            IF t = active
                            THEN [st.threads[t] EXCEPT !.state = Terminated]
                            ELSE IF st.threads[t].state = BlockedOnJoin(active)
                            THEN [st.threads[t] EXCEPT !.state = Enabled]
                            ELSE st.threads[t]]],
             action |-> "ExecuteDtors", now |-> time]
       ELSE IF st.threads[MAIN_THREAD].state = Terminated
       THEN [st |-> st, action |-> "Stop", now |-> time]
       ELSE IF st.threads[active].state = Enabled /\ ~st.yield_active_thread
       THEN [st |-> st, action |-> "ExecuteStep", now |-> time]
       ELSE IF s1.threads[picked].state = Enabled
       THEN [st |-> s1, action |-> "ExecuteStep", now |-> time]
       ELSE IF others_done
       THEN [st |-> Throw(s1, "Panic"), action |-> "Error", now |-> time]
       ELSE IF s1.timeout_callbacks # {}
       THEN LET next_call_time ==
                    Min({c.call_time : c \in s1.timeout_callbacks})
            IN [st |-> s1, action |-> "ExecuteTimeoutCallback",
                now |-> IF next_call_time > time THEN next_call_time
                        ELSE time]
       ELSE [st |-> Throw(s1, "Deadlock"), action |-> "Error", now |-> time]

(* A scheduler that picks the first Enabled thread at every call. *)
schedule_always_picks(st, time) ==
    LET active == st.active_thread
        others_done == \A t \in ThreadIds(st) : st.threads[t].state = Terminated
        candidates ==
            {id \in ThreadIds(st) :
                /\ st.threads[id].state = Enabled
                /\ (~st.yield_active_thread \/ id # active)}
        picked == IF candidates = {} THEN active ELSE Min(candidates)
        s1 == [st EXCEPT !.active_thread = picked,
                         !.yield_active_thread = FALSE]
    IN IF st.threads[active].state = Enabled /\ st.threads[active].stack = 0
       THEN [st |-> [st EXCEPT !.threads =
                        [t \in ThreadIds(st) |->
                            IF t = active
                            THEN [st.threads[t] EXCEPT !.state = Terminated]
                            ELSE IF st.threads[t].state = BlockedOnJoin(active)
                            THEN [st.threads[t] EXCEPT !.state = Enabled]
                            ELSE st.threads[t]]],
             action |-> "ExecuteDtors", now |-> time]
       ELSE IF st.threads[MAIN_THREAD].state = Terminated
       THEN IF ~others_done
            THEN [st |-> Throw(st, "Unsupported"), action |-> "Error",
                  now |-> time]
            ELSE [st |-> st, action |-> "Stop", now |-> time]
       ELSE IF s1.threads[picked].state = Enabled
       THEN [st |-> s1, action |-> "ExecuteStep", now |-> time]
       ELSE IF others_done
       THEN [st |-> Throw(s1, "Panic"), action |-> "Error", now |-> time]
       ELSE IF s1.timeout_callbacks # {}
       THEN LET next_call_time ==
                    Min({c.call_time : c \in s1.timeout_callbacks})
            IN [st |-> s1, action |-> "ExecuteTimeoutCallback",
                now |-> IF next_call_time > time THEN next_call_time
                        ELSE time]
       ELSE [st |-> Throw(s1, "Deadlock"), action |-> "Error", now |-> time]

(* A scheduler whose pick may fall on the thread that has just yielded. *)
schedule_yields_to_self(st, time) ==
    LET active == st.active_thread
        others_done == \A t \in ThreadIds(st) : st.threads[t].state = Terminated
        candidates ==
            {id \in ThreadIds(st) : st.threads[id].state = Enabled}
        picked == IF candidates = {} THEN active ELSE Min(candidates)
        s1 == [st EXCEPT !.active_thread = picked,
                         !.yield_active_thread = FALSE]
    IN IF st.threads[active].state = Enabled /\ st.threads[active].stack = 0
       THEN [st |-> [st EXCEPT !.threads =
                        [t \in ThreadIds(st) |->
                            IF t = active
                            THEN [st.threads[t] EXCEPT !.state = Terminated]
                            ELSE IF st.threads[t].state = BlockedOnJoin(active)
                            THEN [st.threads[t] EXCEPT !.state = Enabled]
                            ELSE st.threads[t]]],
             action |-> "ExecuteDtors", now |-> time]
       ELSE IF st.threads[MAIN_THREAD].state = Terminated
       THEN IF ~others_done
            THEN [st |-> Throw(st, "Unsupported"), action |-> "Error",
                  now |-> time]
            ELSE [st |-> st, action |-> "Stop", now |-> time]
       ELSE IF st.threads[active].state = Enabled /\ ~st.yield_active_thread
       THEN [st |-> st, action |-> "ExecuteStep", now |-> time]
       ELSE IF s1.threads[picked].state = Enabled
       THEN [st |-> s1, action |-> "ExecuteStep", now |-> time]
       ELSE IF others_done
       THEN [st |-> Throw(s1, "Panic"), action |-> "Error", now |-> time]
       ELSE IF s1.timeout_callbacks # {}
       THEN LET next_call_time ==
                    Min({c.call_time : c \in s1.timeout_callbacks})
            IN [st |-> s1, action |-> "ExecuteTimeoutCallback",
                now |-> IF next_call_time > time THEN next_call_time
                        ELSE time]
       ELSE [st |-> Throw(s1, "Deadlock"), action |-> "Error", now |-> time]

(* A scheduler that runs a due callback before any thread. *)
schedule_runs_due_callbacks(st, time) ==
    LET active == st.active_thread
        others_done == \A t \in ThreadIds(st) : st.threads[t].state = Terminated
        candidates ==
            {id \in ThreadIds(st) :
                /\ st.threads[id].state = Enabled
                /\ (~st.yield_active_thread \/ id # active)}
        picked == IF candidates = {} THEN active ELSE Min(candidates)
        s1 == [st EXCEPT !.active_thread = picked,
                         !.yield_active_thread = FALSE]
    IN IF st.threads[active].state = Enabled /\ st.threads[active].stack = 0
       THEN [st |-> [st EXCEPT !.threads =
                        [t \in ThreadIds(st) |->
                            IF t = active
                            THEN [st.threads[t] EXCEPT !.state = Terminated]
                            ELSE IF st.threads[t].state = BlockedOnJoin(active)
                            THEN [st.threads[t] EXCEPT !.state = Enabled]
                            ELSE st.threads[t]]],
             action |-> "ExecuteDtors", now |-> time]
       ELSE IF st.threads[MAIN_THREAD].state = Terminated
       THEN IF ~others_done
            THEN [st |-> Throw(st, "Unsupported"), action |-> "Error",
                  now |-> time]
            ELSE [st |-> st, action |-> "Stop", now |-> time]
       ELSE IF ReadyCallbacks(st, time) # {}
       THEN [st |-> st, action |-> "ExecuteTimeoutCallback", now |-> time]
       ELSE IF st.threads[active].state = Enabled /\ ~st.yield_active_thread
       THEN [st |-> st, action |-> "ExecuteStep", now |-> time]
       ELSE IF s1.threads[picked].state = Enabled
       THEN [st |-> s1, action |-> "ExecuteStep", now |-> time]
       ELSE IF others_done
       THEN [st |-> Throw(s1, "Panic"), action |-> "Error", now |-> time]
       ELSE IF s1.timeout_callbacks # {}
       THEN LET next_call_time ==
                    Min({c.call_time : c \in s1.timeout_callbacks})
            IN [st |-> s1, action |-> "ExecuteTimeoutCallback",
                now |-> IF next_call_time > time THEN next_call_time
                        ELSE time]
       ELSE [st |-> Throw(s1, "Deadlock"), action |-> "Error", now |-> time]

(* A scheduler that does not fall back on the thread that yielded. *)
schedule_strands_yielder(st, time) ==
    LET active == st.active_thread
        others_done == \A t \in ThreadIds(st) : st.threads[t].state = Terminated
        candidates ==
            {id \in ThreadIds(st) :
                /\ st.threads[id].state = Enabled
                /\ (~st.yield_active_thread \/ id # active)}
        picked == IF candidates = {} THEN active ELSE Min(candidates)
        s1 == [st EXCEPT !.active_thread = picked,
                         !.yield_active_thread = FALSE]
    IN IF st.threads[active].state = Enabled /\ st.threads[active].stack = 0
       THEN [st |-> [st EXCEPT !.threads =
                        [t \in ThreadIds(st) |->
                            IF t = active
                            THEN [st.threads[t] EXCEPT !.state = Terminated]
                            ELSE IF st.threads[t].state = BlockedOnJoin(active)
                            THEN [st.threads[t] EXCEPT !.state = Enabled]
                            ELSE st.threads[t]]],
             action |-> "ExecuteDtors", now |-> time]
       ELSE IF st.threads[MAIN_THREAD].state = Terminated
       THEN IF ~others_done
            THEN [st |-> Throw(st, "Unsupported"), action |-> "Error",
                  now |-> time]
            ELSE [st |-> st, action |-> "Stop", now |-> time]
       ELSE IF st.threads[active].state = Enabled /\ ~st.yield_active_thread
       THEN [st |-> st, action |-> "ExecuteStep", now |-> time]
       ELSE IF candidates # {}
       THEN [st |-> s1, action |-> "ExecuteStep", now |-> time]
       ELSE IF others_done
       THEN [st |-> Throw(s1, "Panic"), action |-> "Error", now |-> time]
       ELSE IF s1.timeout_callbacks # {}
       THEN LET next_call_time ==
                    Min({c.call_time : c \in s1.timeout_callbacks})
            IN [st |-> s1, action |-> "ExecuteTimeoutCallback",
                now |-> IF next_call_time > time THEN next_call_time
                        ELSE time]
       ELSE [st |-> Throw(s1, "Deadlock"), action |-> "Error", now |-> time]

(* A scheduler that ends the program when nothing can run. *)
schedule_stops(st, time) ==
    LET active == st.active_thread
        others_done == \A t \in ThreadIds(st) : st.threads[t].state = Terminated
        candidates ==
            {id \in ThreadIds(st) :
                /\ st.threads[id].state = Enabled
                /\ (~st.yield_active_thread \/ id # active)}
        picked == IF candidates = {} THEN active ELSE Min(candidates)
        s1 == [st EXCEPT !.active_thread = picked,
                         !.yield_active_thread = FALSE]
    IN IF st.threads[active].state = Enabled /\ st.threads[active].stack = 0
       THEN [st |-> [st EXCEPT !.threads =
                        [t \in ThreadIds(st) |->
                            IF t = active
                            THEN [st.threads[t] EXCEPT !.state = Terminated]
                            ELSE IF st.threads[t].state = BlockedOnJoin(active)
                            THEN [st.threads[t] EXCEPT !.state = Enabled]
                            ELSE st.threads[t]]],
             action |-> "ExecuteDtors", now |-> time]
       ELSE IF st.threads[MAIN_THREAD].state = Terminated
       THEN IF ~others_done
            THEN [st |-> Throw(st, "Unsupported"), action |-> "Error",
                  now |-> time]
            ELSE [st |-> st, action |-> "Stop", now |-> time]
       ELSE IF st.threads[active].state = Enabled /\ ~st.yield_active_thread
       THEN [st |-> st, action |-> "ExecuteStep", now |-> time]
       ELSE IF s1.threads[picked].state = Enabled
       THEN [st |-> s1, action |-> "ExecuteStep", now |-> time]
       ELSE IF others_done
       THEN [st |-> Throw(s1, "Panic"), action |-> "Error", now |-> time]
       ELSE IF s1.timeout_callbacks # {}
       THEN LET next_call_time ==
                    Min({c.call_time : c \in s1.timeout_callbacks})
            IN [st |-> s1, action |-> "ExecuteTimeoutCallback",
                now |-> IF next_call_time > time THEN next_call_time
                        ELSE time]
       ELSE [st |-> s1, action |-> "Stop", now |-> time]

schedule(st, time) ==
    LET active == st.active_thread
        others_done == \A t \in ThreadIds(st) : st.threads[t].state = Terminated
        candidates ==
            {id \in ThreadIds(st) :
                /\ st.threads[id].state = Enabled
                /\ (~st.yield_active_thread \/ id # active)}
        picked == IF candidates = {} THEN active ELSE Min(candidates)
        s1 == [st EXCEPT !.active_thread = picked,
                         !.yield_active_thread = FALSE]
    IN IF st.threads[active].state = Enabled /\ st.threads[active].stack = 0
       THEN [st |-> [st EXCEPT !.threads =
                        [t \in ThreadIds(st) |->
                            IF t = active
                            THEN [st.threads[t] EXCEPT !.state = Terminated]
                            ELSE IF st.threads[t].state = BlockedOnJoin(active)
                            THEN [st.threads[t] EXCEPT !.state = Enabled]
                            ELSE st.threads[t]]],
             action |-> "ExecuteDtors", now |-> time]
       ELSE IF st.threads[MAIN_THREAD].state = Terminated
       THEN IF ~others_done
            THEN [st |-> Throw(st, "Unsupported"), action |-> "Error",
                  now |-> time]
            ELSE [st |-> st, action |-> "Stop", now |-> time]
       ELSE IF st.threads[active].state = Enabled /\ ~st.yield_active_thread
       THEN [st |-> st, action |-> "ExecuteStep", now |-> time]
       ELSE IF s1.threads[picked].state = Enabled
       THEN [st |-> s1, action |-> "ExecuteStep", now |-> time]
       ELSE IF others_done
       THEN [st |-> Throw(s1, "Panic"), action |-> "Error", now |-> time]
       ELSE IF s1.timeout_callbacks # {}
       THEN LET next_call_time ==
                    Min({c.call_time : c \in s1.timeout_callbacks})
            IN [st |-> s1, action |-> "ExecuteTimeoutCallback",
                now |-> IF next_call_time > time THEN next_call_time
                        ELSE time]
       ELSE [st |-> Throw(s1, "Deadlock"), action |-> "Error", now |-> time]

----------------------------------------------------------------------------
(* The state machine. *)

(* The machine after ThreadManager::default(), with the main thread's entry *)
(* frame pushed, and a guest memory that holds the given zero-initialised   *)
(* objects; static initialisers may have stored any of `kinds`.             *)
InitWith(mobjs, kinds, robjs, cobjs) ==
    /\ threads = [t \in {MAIN_THREAD} |->
                    [state |-> Enabled, stack |-> 1,
                     join_status |-> "Detached"]]
    /\ active_thread = MAIN_THREAD
    /\ yield_active_thread = FALSE
    /\ timeout_callbacks = {}
    /\ mutexes = <<>>
    /\ rwlocks = <<>>
    /\ condvars = <<>>
    /\ mutex_mem \in [mobjs -> {[id |-> Some(0), kind |-> Some(k)] :
                                    k \in kinds}]
    /\ rwlock_mem = [a \in robjs |-> [id |-> Some(0)]]
    /\ cond_mem = [a \in cobjs |->
                     [id |-> Some(0), clock |-> Some(CLOCK_REALTIME)]]
    /\ slot = [t \in {MAIN_THREAD} |-> "unset"]
    /\ thread_local_alloc_ids = <<>>
    /\ memory = [id \in {StaticAllocId(d) : d \in Statics} |->
                    [value |-> StaticInit, writer |-> None]]
    /\ pointers = {}
    /\ now = 0
    /\ sched = "Schedule"
    /\ err = "none"
    /\ last = [op |-> "init", th |-> MAIN_THREAD, obj |-> "", arg |-> "",
               ret |-> ""]

MutexKinds ==
    {PTHREAD_MUTEX_NORMAL, PTHREAD_MUTEX_ERRORCHECK, PTHREAD_MUTEX_RECURSIVE}

Unlimited == <<>>

Init ==
    /\ InitWith(MutexObjs, {PTHREAD_MUTEX_DEFAULT}, RwLockObjs, CondObjs)
    /\ fuel = Unlimited

(* The machine `st` left by a shim becomes the next state. *)
CommitAs(st, op, th, obj, arg) ==
    /\ threads' = st.threads
    /\ active_thread' = st.active_thread
    /\ yield_active_thread' = st.yield_active_thread
    /\ timeout_callbacks' = st.timeout_callbacks
    /\ mutexes' = st.mutexes
    /\ rwlocks' = st.rwlocks
    /\ condvars' = st.condvars
    /\ mutex_mem' = st.mutex_mem
    /\ rwlock_mem' = st.rwlock_mem
    /\ cond_mem' = st.cond_mem
    /\ slot' = st.slot
    /\ thread_local_alloc_ids' = st.thread_local_alloc_ids
    /\ memory' = st.memory
    /\ pointers' = st.pointers
    /\ err' = st.err
    /\ last' = [op |-> op, th |-> th, obj |-> obj, arg |-> arg,
                ret |-> IF Ok(st) THEN st.ret ELSE st.err]

Commit(st, op, obj) == CommitAs(st, op, active_thread, obj, "")

(* One interpreter step of the active thread that calls a shim. *)
Stepping == sched = "ExecuteStep" /\ err = "none"

StepOn(st, op, obj, arg) ==
    /\ Stepping
    /\ IF fuel = Unlimited THEN fuel' = fuel
       ELSE fuel[1] > 0 /\ fuel' = <<fuel[1] - 1>>
    /\ CommitAs(st, op, active_thread, obj, arg)
    /\ sched' = "Schedule"
    /\ UNCHANGED now

Step(st, op, obj) == StepOn(st, op, obj, "")

(* Recursive acquisition is cut at MaxLockCount. *)
RelockAllowed(a) ==
    IF mutex_mem[a].id = Undef \/ mutex_mem[a].id = Some(0) THEN TRUE
    ELSE IF mutexes[MutexId(Machine, a)].owner # Some(active_thread) THEN TRUE
    ELSE mutexes[MutexId(Machine, a)].lock_count < MaxLockCount

RereadAllowed(a) ==
    IF rwlock_mem[a].id = Undef \/ rwlock_mem[a].id = Some(0) THEN TRUE
    ELSE IF active_thread \notin DOMAIN rwlocks[RwLockId(Machine, a)].readers
    THEN TRUE
    ELSE rwlocks[RwLockId(Machine, a)].readers[active_thread] < MaxLockCount

Schedule ==
    /\ sched = "Schedule"
    /\ err = "none"
    /\ LET r == schedule(Machine, now)
       IN /\ CommitAs([r.st EXCEPT !.ret = r.action], "schedule",
                      active_thread, "",
                      IF yield_active_thread THEN "yield" ELSE "")
          /\ sched' = r.action
          /\ now' = r.now
    /\ UNCHANGED fuel

RunTimeoutCallback ==
    /\ sched = "ExecuteTimeoutCallback"
    /\ err = "none"
    /\ LET ready == get_ready_callback(Machine, now)
       IN CommitAs(run_timeout_callback(Machine, now), "run_timeout_callback",
                   IF ready = None THEN active_thread ELSE The(ready).thread,
                   IF ready = None THEN "" ELSE The(ready).callback.kind,
                   IF ready = None THEN ""
                   ELSE ToString(The(ready).call_time))
    /\ sched' = "Schedule"
    /\ UNCHANGED <<now, fuel>>

RunDtors ==
    /\ sched = "ExecuteDtors"
    /\ err = "none"
    /\ sched' = "Schedule"
    /\ last' = [op |-> "run_dtors", th |-> active_thread, obj |-> "",
                arg |-> "", ret |-> ""]
    /\ UNCHANGED <<threads, active_thread, yield_active_thread,
                   timeout_callbacks, mutexes, rwlocks, condvars, mutex_mem,
                   rwlock_mem, cond_mem, slot, now, err, fuel,
                   thread_local_alloc_ids, memory, pointers>>

(* The start routine (or main) returns: the last frame is popped. *)
ThreadReturn ==
    /\ threads[active_thread].stack > 0
    /\ Step([Machine EXCEPT !.threads[active_thread].stack = @ - 1,
                            !.ret = ""], "return", "")

(* Host time passes between two interpreter steps. *)
Tick ==
    /\ sched = "Schedule"
    /\ err = "none"
    /\ now < MaxTime
    /\ now' = now + 1
    /\ UNCHANGED <<threads, active_thread, yield_active_thread,
                   timeout_callbacks, mutexes, rwlocks, condvars, mutex_mem,
                   rwlock_mem, cond_mem, slot, sched, err, last, fuel,
                   thread_local_alloc_ids, memory, pointers>>

PthreadMutexInit ==
    \E a \in DOMAIN mutex_mem :
      \E attr \in {"NULL"} \cup MutexKinds :
        Step(pthread_mutex_init(Machine, a, attr), "pthread_mutex_init", a)

PthreadMutexLock ==
    \E a \in DOMAIN mutex_mem :
        /\ RelockAllowed(a)
        /\ Step(pthread_mutex_lock(Machine, a), "pthread_mutex_lock", a)

PthreadMutexTrylock ==
    \E a \in DOMAIN mutex_mem :
        /\ RelockAllowed(a)
        /\ Step(pthread_mutex_trylock(Machine, a), "pthread_mutex_trylock", a)

PthreadMutexUnlock ==
    \E a \in DOMAIN mutex_mem :
        Step(pthread_mutex_unlock(Machine, a), "pthread_mutex_unlock", a)

PthreadMutexDestroy ==
    \E a \in DOMAIN mutex_mem :
        Step(pthread_mutex_destroy(Machine, a), "pthread_mutex_destroy", a)

PthreadRwlockRdlock ==
    \E a \in DOMAIN rwlock_mem :
        /\ RereadAllowed(a)
        /\ Step(pthread_rwlock_rdlock(Machine, a), "pthread_rwlock_rdlock", a)

PthreadRwlockTryrdlock ==
    \E a \in DOMAIN rwlock_mem :
        /\ RereadAllowed(a)
        /\ Step(pthread_rwlock_tryrdlock(Machine, a),
                "pthread_rwlock_tryrdlock", a)

PthreadRwlockWrlock ==
    \E a \in DOMAIN rwlock_mem :
        Step(pthread_rwlock_wrlock(Machine, a), "pthread_rwlock_wrlock", a)

PthreadRwlockTrywrlock ==
    \E a \in DOMAIN rwlock_mem :
        Step(pthread_rwlock_trywrlock(Machine, a),
             "pthread_rwlock_trywrlock", a)

PthreadRwlockUnlock ==
    \E a \in DOMAIN rwlock_mem :
        Step(pthread_rwlock_unlock(Machine, a), "pthread_rwlock_unlock", a)

PthreadRwlockDestroy ==
    \E a \in DOMAIN rwlock_mem :
        Step(pthread_rwlock_destroy(Machine, a), "pthread_rwlock_destroy", a)

PthreadCondInit ==
    \E c \in DOMAIN cond_mem :
      \E attr \in {"NULL", CLOCK_REALTIME, CLOCK_MONOTONIC} :
        Step(pthread_cond_init(Machine, c, attr), "pthread_cond_init", c)

PthreadCondSignal ==
    \E c \in DOMAIN cond_mem :
        Step(pthread_cond_signal(Machine, c), "pthread_cond_signal", c)

PthreadCondBroadcast ==
    \E c \in DOMAIN cond_mem :
        Step(pthread_cond_broadcast(Machine, c), "pthread_cond_broadcast", c)

PthreadCondWait ==
    \E c \in DOMAIN cond_mem, a \in DOMAIN mutex_mem :
        StepOn(pthread_cond_wait(Machine, c, a), "pthread_cond_wait", c, a)

PthreadCondTimedwait ==
    \E c \in DOMAIN cond_mem, a \in DOMAIN mutex_mem,
       abstime \in 0..MaxTime :
        StepOn(pthread_cond_timedwait(Machine, c, a, abstime),
               "pthread_cond_timedwait", c, a)

PthreadCondDestroy ==
    \E c \in DOMAIN cond_mem :
        Step(pthread_cond_destroy(Machine, c), "pthread_cond_destroy", c)

PthreadCreate ==
    /\ Cardinality(DOMAIN threads) < MaxThreads
    /\ Step(pthread_create(Machine), "pthread_create", "")

(* The thread id a call was given, as `last` records it. *)
ThreadArg(t) == ToString(t)

PthreadJoin ==
    \E t \in DOMAIN threads, retval_is_null \in BOOLEAN :
        StepOn(pthread_join(Machine, t, retval_is_null), "pthread_join",
               ThreadArg(t), IF retval_is_null THEN "NULL" ELSE "retval")

PthreadDetach ==
    \E t \in DOMAIN threads :
        Step(pthread_detach(Machine, t), "pthread_detach", ThreadArg(t))

SchedYield ==
    /\ Stepping
    /\ Step(sched_yield(Machine), "sched_yield", "")

Nanosleep ==
    \E duration \in 0..MaxTime :
        /\ now + duration <= MaxTime
        /\ StepOn(nanosleep(Machine, duration, now), "nanosleep", "",
                  ToString(duration))

(* The interpreter asks how long to wait for the next callback. *)
WaitTimeArg(r) == IF r = None THEN "None" ELSE ToString(The(r))

GetNextCallbackWaitTime ==
    /\ sched = "Schedule"
    /\ err = "none"
    /\ \E r \in get_next_callback_wait_time(Machine, now) :
         last' = [op |-> "get_next_callback_wait_time", th |-> active_thread,
                  obj |-> "", arg |-> "", ret |-> WaitTimeArg(r)]
    /\ UNCHANGED <<threads, active_thread, yield_active_thread,
                   timeout_callbacks, mutexes, rwlocks, condvars, mutex_mem,
                   rwlock_mem, cond_mem, slot, now, sched, err, fuel,
                   thread_local_alloc_ids, memory, pointers>>

(* Accesses of the guest program to its statics. *)
StaticRead ==
    \E def_id \in Statics :
        Step(static_read(Machine, def_id), "static_read", def_id)

StaticWrite ==
    \E def_id \in Statics, v \in 1..MaxValue :
        StepOn(static_write(Machine, def_id, v), "static_write", def_id,
               ToString(v))

StaticShare ==
    \E def_id \in Statics :
        Step(static_share(Machine, def_id), "static_share", def_id)

PointerRead ==
    \E p \in pointers :
        Step(memory_read(Machine, p), "pointer_read", ToString(p))

PointerWrite ==
    \E p \in pointers, v \in 1..MaxValue :
        StepOn(memory_write(Machine, p, v), "pointer_write", ToString(p),
               ToString(v))

Next ==
    \/ Schedule
    \/ RunTimeoutCallback
    \/ RunDtors
    \/ ThreadReturn
    \/ Tick
    \/ PthreadMutexInit
    \/ PthreadMutexLock
    \/ PthreadMutexTrylock
    \/ PthreadMutexUnlock
    \/ PthreadMutexDestroy
    \/ PthreadRwlockRdlock
    \/ PthreadRwlockTryrdlock
    \/ PthreadRwlockWrlock
    \/ PthreadRwlockTrywrlock
    \/ PthreadRwlockUnlock
    \/ PthreadRwlockDestroy
    \/ PthreadCondInit
    \/ PthreadCondSignal
    \/ PthreadCondBroadcast
    \/ PthreadCondWait
    \/ PthreadCondTimedwait
    \/ PthreadCondDestroy
    \/ PthreadCreate
    \/ PthreadJoin
    \/ PthreadDetach
    \/ SchedYield
    \/ Nanosleep
    \/ StaticRead
    \/ StaticWrite
    \/ StaticShare
    \/ PointerRead
    \/ PointerWrite
    \/ GetNextCallbackWaitTime

Spec == Init /\ [][Next]_vars


----------------------------------------------------------------------------
(* Programs that use one family of primitives. *)

(* Read-write locks. *)
InitRw == InitWith({}, {}, RwLockObjs, {}) /\ fuel = Unlimited

NextRw ==
    \/ Schedule
    \/ RunDtors
    \/ ThreadReturn
    \/ PthreadCreate
    \/ SchedYield
    \/ PthreadRwlockRdlock
    \/ PthreadRwlockTryrdlock
    \/ PthreadRwlockWrlock
    \/ PthreadRwlockTrywrlock
    \/ PthreadRwlockUnlock
    \/ PthreadRwlockDestroy

SpecRw == InitRw /\ [][NextRw]_vars

(* Two NORMAL mutexes, sleeping and thread exit. *)
InitMu == InitWith(MutexObjs, {PTHREAD_MUTEX_NORMAL}, {}, {}) /\ fuel = Unlimited

NextMu ==
    \/ Schedule
    \/ RunDtors
    \/ ThreadReturn
    \/ RunTimeoutCallback
    \/ Tick
    \/ PthreadCreate
    \/ SchedYield
    \/ Nanosleep
    \/ PthreadMutexLock
    \/ PthreadMutexUnlock

SpecMu == InitMu /\ [][NextMu]_vars

(* Threads only: creation, exit, join, detach, yield and sleeping. *)
InitTh == InitWith({}, {}, {}, {}) /\ fuel = Unlimited

NextTh ==
    \/ Schedule
    \/ RunTimeoutCallback
    \/ RunDtors
    \/ ThreadReturn
    \/ Tick
    \/ PthreadCreate
    \/ PthreadJoin
    \/ PthreadDetach
    \/ SchedYield
    \/ Nanosleep

SpecTh == InitTh /\ [][NextTh]_vars

(* Threads that access a thread-local and an ordinary static, by name *)
(* and through shared pointers, in programs of at most MaxOps calls.  *)
InitTl == InitWith({}, {}, {}, {}) /\ fuel = <<MaxOps>>

NextTl ==
    \/ Schedule
    \/ PthreadCreate
    \/ SchedYield
    \/ StaticRead
    \/ StaticWrite
    \/ StaticShare
    \/ PointerRead
    \/ PointerWrite

SpecTl == InitTl /\ [][NextTl]_vars

(* Threads that sleep, and an interpreter that looks at the timeout table. *)
InitWt == InitWith({}, {}, {}, {}) /\ fuel = Unlimited

NextWt ==
    \/ Schedule
    \/ RunTimeoutCallback
    \/ Tick
    \/ PthreadCreate
    \/ SchedYield
    \/ Nanosleep
    \/ GetNextCallbackWaitTime

SpecWt == InitWt /\ [][NextWt]_vars

(* One mutex of any kind and one condition variable, no timeouts. *)
InitMx == InitWith({"M1"}, MutexKinds, {}, CondObjs) /\ fuel = Unlimited

NextMx ==
    \/ Schedule
    \/ PthreadCreate
    \/ SchedYield
    \/ PthreadMutexLock
    \/ PthreadMutexTrylock
    \/ PthreadMutexUnlock
    \/ PthreadCondWait
    \/ PthreadCondSignal
    \/ PthreadCondBroadcast

SpecMx == InitMx /\ [][NextMx]_vars

(* A kind value that is none of NORMAL, ERRORCHECK and RECURSIVE: the *)
(* kind field is guest memory and can hold it, and the shims fall     *)
(* through to their last `else` for it.                               *)
UnsupportedKind == "unsupported kind"

(* One mutex of any kind, the unsupported one included, and one *)
(* condition variable with plain and timed waits.               *)
InitMk ==
    /\ InitWith({"M1"}, MutexKinds \cup {UnsupportedKind}, {}, CondObjs)
    /\ fuel = Unlimited

NextMk ==
    \/ Schedule
    \/ RunTimeoutCallback
    \/ Tick
    \/ PthreadCreate
    \/ SchedYield
    \/ PthreadMutexLock
    \/ PthreadMutexTrylock
    \/ PthreadMutexUnlock
    \/ PthreadCondWait
    \/ PthreadCondTimedwait

SpecMk == InitMk /\ [][NextMk]_vars

(* One NORMAL mutex and one condition variable, with timeouts, for *)
(* programs of at most MaxCondOps shim calls.                      *)
InitCv ==
    /\ InitWith({"M1"}, {PTHREAD_MUTEX_NORMAL}, {}, CondObjs)
    /\ fuel = <<MaxCondOps>>

NextCv ==
    \/ Schedule
    \/ RunTimeoutCallback
    \/ Tick
    \/ PthreadCreate
    \/ SchedYield
    \/ Nanosleep
    \/ PthreadMutexLock
    \/ PthreadMutexUnlock
    \/ PthreadCondWait
    \/ PthreadCondTimedwait
    \/ PthreadCondSignal
    \/ PthreadCondBroadcast

SpecCv == InitCv /\ [][NextCv]_vars

(* One mutex, one rwlock and one condition variable that are used and *)
(* destroyed, in programs of at most MaxOps shim calls.               *)
InitDs ==
    /\ InitWith({"M1"}, {PTHREAD_MUTEX_NORMAL}, RwLockObjs, CondObjs)
    /\ fuel = <<MaxOps>>

NextDs ==
    \/ Schedule
    \/ PthreadCreate
    \/ SchedYield
    \/ PthreadMutexLock
    \/ PthreadMutexUnlock
    \/ PthreadMutexDestroy
    \/ PthreadRwlockRdlock
    \/ PthreadRwlockWrlock
    \/ PthreadRwlockUnlock
    \/ PthreadRwlockDestroy
    \/ PthreadCondWait
    \/ PthreadCondSignal
    \/ PthreadCondDestroy

SpecDs == InitDs /\ [][NextDs]_vars

(* Timed waits in programs that never signal, of any length, run by an *)
(* interpreter loop that keeps taking steps while it can.              *)
InitTw ==
    /\ InitWith({"M1"}, {PTHREAD_MUTEX_NORMAL}, {}, CondObjs)
    /\ fuel = Unlimited

NextTw ==
    \/ Schedule
    \/ RunTimeoutCallback
    \/ Tick
    \/ PthreadCreate
    \/ Nanosleep
    \/ PthreadMutexLock
    \/ PthreadMutexUnlock
    \/ PthreadCondTimedwait

SpecTwFair == InitTw /\ [][NextTw]_vars /\ WF_vars(NextTw)

(* Every blocking operation, for programs of at most MaxOps shim calls. *)
InitAll ==
    /\ InitWith({"M1"}, {PTHREAD_MUTEX_NORMAL}, RwLockObjs, CondObjs)
    /\ fuel = <<MaxOps>>

NextAll ==
    \/ Schedule
    \/ RunTimeoutCallback
    \/ Tick
    \/ PthreadCreate
    \/ SchedYield
    \/ Nanosleep
    \/ PthreadMutexLock
    \/ PthreadMutexUnlock
    \/ PthreadRwlockRdlock
    \/ PthreadRwlockWrlock
    \/ PthreadRwlockUnlock
    \/ PthreadCondWait
    \/ PthreadCondTimedwait
    \/ PthreadCondSignal
    \/ PthreadCondBroadcast

SpecAll == InitAll /\ [][NextAll]_vars

(* One mutex of any kind and one condition variable, with trylock, *)
(* signals and timeouts, for programs of at most MaxOps shim calls. *)
InitMc ==
    /\ InitWith({"M1"}, MutexKinds, {}, CondObjs)
    /\ fuel = <<MaxOps>>

NextMc ==
    \/ Schedule
    \/ RunTimeoutCallback
    \/ Tick
    \/ PthreadCreate
    \/ SchedYield
    \/ PthreadMutexLock
    \/ PthreadMutexTrylock
    \/ PthreadMutexUnlock
    \/ PthreadCondWait
    \/ PthreadCondTimedwait
    \/ PthreadCondSignal
    \/ PthreadCondBroadcast

SpecMc == InitMc /\ [][NextMc]_vars

(* Every blocking operation together with joins and thread exit, for *)
(* programs of at most MaxOps shim calls.                            *)
InitBl ==
    /\ InitWith({"M1"}, {PTHREAD_MUTEX_NORMAL}, RwLockObjs, CondObjs)
    /\ fuel = <<MaxOps>>

NextBl ==
    \/ Schedule
    \/ RunTimeoutCallback
    \/ RunDtors
    \/ ThreadReturn
    \/ Tick
    \/ PthreadCreate
    \/ PthreadJoin
    \/ SchedYield
    \/ Nanosleep
    \/ PthreadMutexLock
    \/ PthreadMutexUnlock
    \/ PthreadRwlockRdlock
    \/ PthreadRwlockWrlock
    \/ PthreadRwlockUnlock
    \/ PthreadCondWait
    \/ PthreadCondTimedwait
    \/ PthreadCondSignal
    \/ PthreadCondBroadcast

SpecBl == InitBl /\ [][NextBl]_vars

----------------------------------------------------------------------------
(* Properties. *)

(* The step just taken is a call of shim `op` by the active thread. *)
Did(op) == sched = "ExecuteStep" /\ sched' = "Schedule" /\ last'.op = op

(* The guest object holds the id of an allocated primitive. *)
Allocated(mem, a) == mem[a].id # Undef /\ mem[a].id # Some(0)

(* C1: in every reachable state no rwlock has a writer set while its set *)
(* of readers is non-empty.                                              *)
C1_WriterExcludesReaders ==
    \A id \in DOMAIN rwlocks :
        rwlocks[id].writer # None => DOMAIN rwlocks[id].readers = {}

(* A writer holds the lock while a thread that asked to read is queued. *)
C1_Witness ==
    /\ last.op = "pthread_rwlock_rdlock"
    /\ \E id \in DOMAIN rwlocks :
        /\ rwlocks[id].writer # None
        /\ rwlocks[id].reader_queue # <<>>

(* C2: when a reader calls pthread_rwlock_unlock, then if no readers   *)
(* remain after removing the caller and the writer queue is non-empty, *)
(* the head of the writer queue is dequeued, becomes the writer and is *)
(* Enabled; if other readers remain, no writer is dequeued and the     *)
(* writer stays unset.                                                 *)
C2_ReaderUnlockHandsOver ==
    [][\A a \in DOMAIN rwlock_mem :
        (/\ Did("pthread_rwlock_unlock")
         /\ last'.obj = a
         /\ Allocated(rwlock_mem, a)
         /\ active_thread \in DOMAIN rwlocks[RwLockId(Machine, a)].readers)
        => LET id == RwLockId(Machine, a)
               left == rwlock_reader_remove(Machine, id, active_thread)
               queue == rwlocks[id].writer_queue
           IN IF DOMAIN left.rwlocks[id].readers = {}
              THEN queue # <<>> =>
                     /\ rwlocks'[id].writer_queue = Tail(queue)
                     /\ rwlocks'[id].writer = Some(Head(queue))
                     /\ threads'[Head(queue)].state = Enabled
              ELSE /\ rwlocks'[id].writer_queue = queue
                   /\ rwlocks'[id].writer = None]_vars

(* The places thread t takes in the wait queues of all primitives. *)
Occurrences(q, t) == {i \in DOMAIN q : q[i] = t}

WaitQueueEntries(t) ==
    UNION {{<<"mutex", m, i>> : i \in Occurrences(mutexes[m].queue, t)} :
             m \in DOMAIN mutexes}
    \cup UNION {{<<"reader", r, i>> :
                   i \in Occurrences(rwlocks[r].reader_queue, t)} :
                  r \in DOMAIN rwlocks}
    \cup UNION {{<<"writer", r, i>> :
                   i \in Occurrences(rwlocks[r].writer_queue, t)} :
                  r \in DOMAIN rwlocks}
    \cup UNION {{<<"condvar", c, i>> :
                   i \in {j \in DOMAIN condvars[c].waiters :
                            condvars[c].waiters[j][1] = t}} :
                  c \in DOMAIN condvars}

BlockedThreads == {t \in DOMAIN threads : threads[t].state = BlockedOnSync}

Sleeping(t) ==
    \E c \in timeout_callbacks :
        c.thread = t /\ c.callback.kind = "nanosleep"

(* C3 as stated: every BlockedOnSync thread is in exactly one wait queue, *)
(* whichever operation blocked it, nanosleep included.                    *)
C3_ExactlyOneQueue ==
    \A t \in BlockedThreads : Cardinality(WaitQueueEntries(t)) = 1

(* C3: every BlockedOnSync thread is in exactly one wait queue, except a *)
(* thread blocked by nanosleep, which is in no queue and has its wake-up *)
(* registered as a timeout callback.                                     *)
C3_OneQueueOrSleeping ==
    \A t \in BlockedThreads :
        IF Sleeping(t) THEN WaitQueueEntries(t) = {}
        ELSE Cardinality(WaitQueueEntries(t)) = 1

(* A timed-out waiter found its mutex held and moved to the mutex queue, *)
(* while another thread sleeps.                                          *)
C3_Witness ==
    /\ last.op = "run_timeout_callback"
    /\ last.obj = "timedwait"
    /\ threads[last.th].state = BlockedOnSync
    /\ \E m \in DOMAIN mutexes : Occurrences(mutexes[m].queue, last.th) # {}
    /\ \E t \in BlockedThreads : Sleeping(t)

NoneEnabled == \A t \in DOMAIN threads : threads[t].state # Enabled

AllTerminated == \A t \in DOMAIN threads : threads[t].state = Terminated

DidSchedule == sched = "Schedule" /\ last'.op = "schedule"

(* t1 and t2 each own one mutex and each queue for the other's. *)
CrossLocked(t1, t2) ==
    \E m1, m2 \in DOMAIN mutexes :
        /\ m1 # m2
        /\ mutexes[m1].owner = Some(t1)
        /\ mutexes[m2].owner = Some(t2)
        /\ Occurrences(mutexes[m2].queue, t1) # {}
        /\ Occurrences(mutexes[m1].queue, t2) # {}

(* C4 as stated: schedule() fails with Deadlock whenever no thread is *)
(* Enabled, not all threads are Terminated and no timeout callback is *)
(* registered.                                                        *)
C4_DeadlockWheneverStuck ==
    [][(DidSchedule /\ NoneEnabled /\ ~AllTerminated
            /\ timeout_callbacks = {})
        => err' = "Deadlock"]_vars

(* C4: two threads that each hold one NORMAL mutex and each called    *)
(* pthread_mutex_lock on the other's are both BlockedOnSync, and the  *)
(* next schedule() of a program made of these two fails with          *)
(* Deadlock; in general schedule() fails with Deadlock whenever the   *)
(* main thread is not Terminated, no thread is Enabled and no timeout *)
(* callback is registered.                                            *)
C4_DeadlockUnlessMainTerminated ==
    [][DidSchedule =>
        /\ \A t1, t2 \in DOMAIN threads :
             CrossLocked(t1, t2) =>
                /\ threads[t1].state = BlockedOnSync
                /\ threads[t2].state = BlockedOnSync
                /\ DOMAIN threads = {t1, t2} => err' = "Deadlock"
        /\ (/\ threads[MAIN_THREAD].state # Terminated
            /\ NoneEnabled
            /\ timeout_callbacks = {})
           => err' = "Deadlock"]_vars

(* The scheduler has just reported Deadlock for two cross-locked threads. *)
C4_Witness ==
    /\ last.op = "schedule"
    /\ err = "Deadlock"
    /\ \E t1, t2 \in DOMAIN threads : t1 # t2 /\ CrossLocked(t1, t2)

(* C5: when the owner's pthread_mutex_unlock brings the lock count to 0  *)
(* while the waiter queue is non-empty, right after that call the head   *)
(* waiter is off the queue, owns the mutex with lock count 1 and is      *)
(* Enabled; and in no state the scheduler sees is a mutex free while its *)
(* queue holds a waiter.                                                 *)
C5_UnlockHandsOver ==
    /\ [](err = "none" =>
            \A m \in DOMAIN mutexes :
                mutexes[m].owner = None => mutexes[m].queue = <<>>)
    /\ [][\A a \in DOMAIN mutex_mem :
            (/\ Did("pthread_mutex_unlock")
             /\ last'.obj = a
             /\ Allocated(mutex_mem, a)
             /\ mutexes[MutexId(Machine, a)].owner = Some(active_thread)
             /\ mutexes[MutexId(Machine, a)].lock_count = 1
             /\ mutexes[MutexId(Machine, a)].queue # <<>>)
            => LET m == MutexId(Machine, a)
                   head == Head(mutexes[m].queue)
               IN /\ mutexes'[m].queue = Tail(mutexes[m].queue)
                  /\ mutexes'[m].owner = Some(head)
                  /\ mutexes'[m].lock_count = 1
                  /\ threads'[head].state = Enabled]_vars

(* An unlock has handed the mutex to the first of two waiters. *)
C5_Witness ==
    /\ last.op = "pthread_mutex_unlock"
    /\ last.ret = "0"
    /\ \E m \in DOMAIN mutexes, t \in DOMAIN threads :
        /\ t # last.th
        /\ mutexes[m].owner = Some(t)
        /\ mutexes[m].lock_count = 1
        /\ threads[t].state = Enabled
        /\ mutexes[m].queue # <<>>

(* C6: in every reachable state, for every mutex, the owner is absent  *)
(* exactly when the lock count is 0, and no thread in the waiter queue *)
(* is the current owner.                                               *)
C6_OwnerIffCounted ==
    \A m \in DOMAIN mutexes :
        /\ mutexes[m].owner = None <=> mutexes[m].lock_count = 0
        /\ \A i \in DOMAIN mutexes[m].queue :
             mutexes[m].owner # Some(mutexes[m].queue[i])

(* A RECURSIVE mutex is held twice by its owner while a waiter queues. *)
C6_Witness ==
    \E m \in DOMAIN mutexes :
        /\ mutexes[m].lock_count = 2
        /\ mutexes[m].queue # <<>>

(* Thread t is in some condvar's waiter list. *)
InWaiters(t) ==
    \E c \in DOMAIN condvars :
        \E i \in DOMAIN condvars[c].waiters : condvars[c].waiters[i][1] = t

(* The mutexes a blocked thread is to hold when it runs again: the one *)
(* of its condvar wait, or the one whose queue a wake-up moved it to.  *)
WaitMutexes(t) ==
    UNION {{condvars[c].waiters[i][2] :
              i \in {j \in DOMAIN condvars[c].waiters :
                       condvars[c].waiters[j][1] = t}} :
             c \in DOMAIN condvars}
    \cup {m \in DOMAIN mutexes : Occurrences(mutexes[m].queue, t) # {}}

(* C7: a thread blocked in pthread_cond_wait or pthread_cond_timedwait *)
(* on (C, M) becomes Enabled again only in a state where it owns M     *)
(* with lock count 1, whether signal, broadcast or its timeout woke    *)
(* it, and whether M was free or held at the wake-up (then it waits in *)
(* M's queue until M is handed to it).                                 *)
C7_WakesOwningMutex ==
    [][\A t \in DOMAIN threads :
        (/\ threads[t].state = BlockedOnSync
         /\ threads'[t].state = Enabled
         /\ WaitMutexes(t) # {})
        => \A m \in WaitMutexes(t) :
             /\ mutexes'[m].owner = Some(t)
             /\ mutexes'[m].lock_count = 1]_vars

(* The timeout of a timed wait has woken its thread with the mutex. *)
C7_Witness ==
    /\ last.op = "run_timeout_callback"
    /\ last.obj = "timedwait"
    /\ threads[last.th].state = Enabled
    /\ \E m \in DOMAIN mutexes :
        mutexes[m].owner = Some(last.th) /\ mutexes[m].lock_count = 1

(* C8: after the owner T of M (lock count 1) calls pthread_cond_wait(C,  *)
(* M), right after that call T is BlockedOnSync, (T, M) is the last      *)
(* entry of C's waiter list, T does not own M, and M is unlocked if it   *)
(* had no waiters, else owned with count 1 by the former head of its     *)
(* queue, which is Enabled.                                              *)
C8_WaitReleasesMutex ==
    [][\A c \in DOMAIN cond_mem, a \in DOMAIN mutex_mem :
        (/\ Did("pthread_cond_wait")
         /\ last'.obj = c
         /\ last'.arg = a
         /\ Allocated(mutex_mem, a)
         /\ mutexes[MutexId(Machine, a)].owner = Some(active_thread)
         /\ mutexes[MutexId(Machine, a)].lock_count = 1)
        => LET T == active_thread
               m == MutexId(Machine, a)
               queue == mutexes[m].queue
               waiters == condvars'[The(cond_mem'[c].id)].waiters
           IN /\ threads'[T].state = BlockedOnSync
              /\ waiters # <<>>
              /\ waiters[Len(waiters)] = <<T, m>>
              /\ mutexes'[m].owner # Some(T)
              /\ IF queue = <<>>
                 THEN mutexes'[m].owner = None /\ mutexes'[m].lock_count = 0
                 ELSE /\ mutexes'[m].owner = Some(Head(queue))
                      /\ mutexes'[m].lock_count = 1
                      /\ mutexes'[m].queue = Tail(queue)
                      /\ threads'[Head(queue)].state = Enabled]_vars

(* A wait has passed the mutex on to a thread that queued for it. *)
C8_Witness ==
    /\ last.op = "pthread_cond_wait"
    /\ last.ret = "0"
    /\ threads[last.th].state = BlockedOnSync
    /\ \E m \in DOMAIN mutexes, t \in DOMAIN threads :
        /\ t # last.th
        /\ mutexes[m].owner = Some(t)
        /\ threads[t].state = Enabled

(* Thread t waits in a timed wait whose timeout time has passed. *)
TimeoutPassed(t) ==
    \E cb \in timeout_callbacks :
        /\ cb.thread = t
        /\ cb.callback.kind = "timedwait"
        /\ now >= cb.call_time

TimedOutHolding(t) ==
    /\ t \in DOMAIN threads
    /\ slot[t] = "ETIMEDOUT"
    /\ \E m \in DOMAIN mutexes : mutexes[m].owner = Some(t)

(* C9 as stated: if T waits in pthread_cond_timedwait and no signal or *)
(* broadcast ever occurs, then once the timeout time has passed, T's   *)
(* return slot eventually contains ETIMEDOUT and T holds M again,      *)
(* whatever the other threads do (short of a fatal error that stops    *)
(* the interpreter).                                                   *)
C9_EventuallyTimedOut ==
    \A t \in 0..(MaxThreads - 1) :
        []((t \in DOMAIN threads /\ TimeoutPassed(t))
            => <>(TimedOutHolding(t) \/ err # "none"))

(* A step that runs the timeout closure of a timed wait. *)
DidTimeOut ==
    /\ sched = "ExecuteTimeoutCallback"
    /\ last'.op = "run_timeout_callback"
    /\ last'.obj = "timedwait"

(* C9: the timeout of T's timed wait on (C, M) is delivered only in a   *)
(* scheduling round that finds no thread Enabled, after its time has    *)
(* passed and when no thread of lower index has a ready callback; it    *)
(* then writes ETIMEDOUT into T's return slot, and T holds M again at   *)
(* once if M is free, else T stays BlockedOnSync at the tail of M's     *)
(* waiter queue until M is handed to it.                                *)
C9_TimeoutWhenIdle ==
    [][DidTimeOut =>
        LET T == last'.th
            cb == CHOOSE x \in timeout_callbacks : x.thread = T
            m == cb.callback.mutex
        IN /\ NoneEnabled
           /\ now >= cb.call_time
           /\ \A x \in timeout_callbacks :
                x.thread < T => now < x.call_time
           /\ slot'[T] = "ETIMEDOUT"
           /\ IF mutexes[m].owner = None
              THEN /\ mutexes'[m].owner = Some(T)
                   /\ mutexes'[m].lock_count = 1
                   /\ threads'[T].state = Enabled
              ELSE /\ mutexes'[m].owner = mutexes[m].owner
                   /\ mutexes'[m].queue = Append(mutexes[m].queue, T)
                   /\ threads'[T].state = BlockedOnSync]_vars

(* A timed wait has timed out while another thread held the mutex. *)
C9_Witness ==
    /\ last.op = "run_timeout_callback"
    /\ last.obj = "timedwait"
    /\ slot[last.th] = "ETIMEDOUT"
    /\ threads[last.th].state = BlockedOnSync
    /\ \E m \in DOMAIN mutexes :
        /\ mutexes[m].owner # None
        /\ Occurrences(mutexes[m].queue, last.th) # {}

(* C10: a thread in pthread_cond_timedwait is woken by exactly one of    *)
(* signal/broadcast or its timeout: while its timeout is registered it   *)
(* is in the condvar's waiter list with return slot 0; a thread that     *)
(* signal or broadcast dequeues has no registered timeout callback and   *)
(* its return slot is left as it was; after its timeout callback has run *)
(* it is in no condvar waiter list.                                      *)
C10_SignalOrTimeout ==
    /\ [](\A cb \in timeout_callbacks :
            cb.callback.kind = "timedwait" =>
                /\ slot[cb.thread] = "0"
                /\ \E i \in DOMAIN condvars[cb.callback.cond].waiters :
                     condvars[cb.callback.cond].waiters[i]
                        = <<cb.thread, cb.callback.mutex>>)
    /\ [][(Did("pthread_cond_signal") \/ Did("pthread_cond_broadcast"))
            => \A t \in DOMAIN threads :
                 (InWaiters(t) /\ ~InWaiters(t)')
                 => /\ \A cb \in timeout_callbacks' : cb.thread # t
                    /\ slot'[t] = slot[t]]_vars
    /\ [][DidTimeOut =>
            \A c \in DOMAIN condvars' :
                \A i \in DOMAIN condvars'[c].waiters :
                    condvars'[c].waiters[i][1] # last'.th]_vars

(* A signal has dequeued a thread whose timed wait was still pending. *)
C10_Witness ==
    /\ last.op = "pthread_cond_signal"
    /\ \E t \in DOMAIN threads :
        /\ t # last.th
        /\ slot[t] = "0"
        /\ ~InWaiters(t)
        /\ \A cb \in timeout_callbacks : cb.thread # t
        /\ \E m \in DOMAIN mutexes :
             Occurrences(mutexes[m].queue, t) # {}

(* Queue r follows queue q by a first-in first-out step: some entries  *)
(* left q from its head, the rest kept their order at the head of r,   *)
(* and whatever is new in r stands behind them.                        *)
FifoStep(q, r) ==
    \E k \in 0..Len(q) :
        /\ Len(r) >= Len(q) - k
        /\ SubSeq(r, 1, Len(q) - k) = SubSeq(q, k + 1, Len(q))
        /\ \A i \in 1..k : \A j \in DOMAIN r : r[j] # q[i]

(* Mutex waiters and both rwlock queues change first-in first-out. *)
LockQueuesFifo ==
    /\ \A m \in DOMAIN mutexes : FifoStep(mutexes[m].queue, mutexes'[m].queue)
    /\ \A r \in DOMAIN rwlocks :
        /\ FifoStep(rwlocks[r].writer_queue, rwlocks'[r].writer_queue)
        /\ FifoStep(rwlocks[r].reader_queue, rwlocks'[r].reader_queue)

(* C11 as stated: every wait queue (mutex waiters, rwlock writer queue, *)
(* rwlock reader queue, condvar waiters) is left in enqueue order: a    *)
(* thread enqueued after another never leaves the queue before it.      *)
C11_WakeInEnqueueOrder ==
    [][/\ LockQueuesFifo
       /\ \A c \in DOMAIN condvars :
            FifoStep(condvars[c].waiters, condvars'[c].waiters)]_vars

(* C11: mutex waiters, rwlock writers and rwlock readers leave their   *)
(* queue in enqueue order, and so do condvar waiters woken by signal   *)
(* or broadcast; the timeout of a timed wait takes its own thread out  *)
(* of the condvar waiters wherever it stands, ahead of earlier waiters *)
(* too, and keeps the order of the others.                             *)
C11_FifoExceptTimeout ==
    [][/\ LockQueuesFifo
       /\ \A c \in DOMAIN condvars :
            IF DidTimeOut
            THEN condvars'[c].waiters
                   = SelectSeq(condvars[c].waiters,
                               LAMBDA w : w[1] # last'.th)
            ELSE FifoStep(condvars[c].waiters, condvars'[c].waiters)]_vars

(* A timed-out waiter has left the condvar while another thread is *)
(* still waiting on it.                                            *)
C11_Witness ==
    /\ last.op = "run_timeout_callback"
    /\ last.obj = "timedwait"
    /\ \E c \in DOMAIN condvars :
        /\ condvars[c].waiters # <<>>
        /\ \A i \in DOMAIN condvars[c].waiters :
             condvars[c].waiters[i][1] # last.th

(* The threads standing in queue q. *)
Queued(q) == {q[i] : i \in DOMAIN q}

(* C12: when the writer of an rwlock calls pthread_rwlock_unlock, then  *)
(* if the writer queue is non-empty exactly its head becomes the writer *)
(* and Enabled while every queued reader stays blocked and queued; if   *)
(* the writer queue is empty every queued reader is dequeued, added to  *)
(* the readers and Enabled, and the reader queue is left empty.         *)
C12_WriterUnlockPrefersWriters ==
    [][\A a \in DOMAIN rwlock_mem :
        (/\ Did("pthread_rwlock_unlock")
         /\ last'.obj = a
         /\ Allocated(rwlock_mem, a)
         /\ rwlocks[RwLockId(Machine, a)].writer = Some(active_thread))
        => LET id == RwLockId(Machine, a)
               writers == rwlocks[id].writer_queue
               readers == rwlocks[id].reader_queue
           IN /\ err' = "none"
              /\ last'.ret = "0"
              /\ IF writers # <<>>
                 THEN /\ rwlocks'[id].writer = Some(Head(writers))
                      /\ rwlocks'[id].writer_queue = Tail(writers)
                      /\ threads'[Head(writers)].state = Enabled
                      /\ \A t \in Queued(Tail(writers)) :
                           threads'[t].state = BlockedOnSync
                      /\ rwlocks'[id].reader_queue = readers
                      /\ DOMAIN rwlocks'[id].readers = {}
                      /\ \A t \in Queued(readers) :
                           threads'[t].state = BlockedOnSync
                 ELSE /\ rwlocks'[id].writer = None
                      /\ rwlocks'[id].writer_queue = <<>>
                      /\ rwlocks'[id].reader_queue = <<>>
                      /\ DOMAIN rwlocks'[id].readers = Queued(readers)
                      /\ \A t \in Queued(readers) :
                           threads'[t].state = Enabled]_vars

(* A writer's unlock has passed the lock to a queued writer over the *)
(* head of a reader that is still queued.                            *)
C12_Witness ==
    /\ last.op = "pthread_rwlock_unlock"
    /\ last.ret = "0"
    /\ \E id \in DOMAIN rwlocks :
        /\ rwlocks[id].writer # None
        /\ rwlocks[id].writer # Some(last.th)
        /\ rwlocks[id].reader_queue # <<>>

(* The rwlock behind guest object a, as the state variables hold it; a *)
(* lock that has no id yet is the unlocked default.                    *)
RwLockOf(a) ==
    IF Allocated(rwlock_mem, a) THEN rwlocks[RwLockId(Machine, a)]
    ELSE RwLockDefault

(* The same rwlock after the step, which may have given it its id. *)
RwLockAfter(a) == rwlocks'[The(rwlock_mem'[a].id)]

(* The count of read locks thread t holds in rwlock record r. *)
ReadCount(r, t) == IF t \in DOMAIN r.readers THEN r.readers[t] ELSE 0

(* The step adds the caller as a reader and changes nothing else of a. *)
ReaderAdded(a) ==
    /\ last'.ret = "0"
    /\ ReadCount(RwLockAfter(a), active_thread)
         = ReadCount(RwLockOf(a), active_thread) + 1
    /\ \A t \in DOMAIN threads \ {active_thread} :
         ReadCount(RwLockAfter(a), t) = ReadCount(RwLockOf(a), t)
    /\ RwLockAfter(a).writer = None
    /\ RwLockAfter(a).writer_queue = RwLockOf(a).writer_queue
    /\ RwLockAfter(a).reader_queue = RwLockOf(a).reader_queue
    /\ threads' = threads

(* The step makes the caller the writer and changes nothing else of a. *)
WriterSet(a) ==
    /\ last'.ret = "0"
    /\ RwLockAfter(a)
         = [RwLockOf(a) EXCEPT !.writer = Some(active_thread)]
    /\ threads' = threads

(* The step leaves rwlock a and every thread as they were. *)
RwLockUntouched(a) ==
    /\ RwLockAfter(a) = RwLockOf(a)
    /\ threads' = threads

(* The step blocked the caller and nothing else happened to a thread. *)
CallerBlocked ==
    threads' = [threads EXCEPT ![active_thread].state = BlockedOnSync]

(* C13: pthread_rwlock_rdlock blocks and enqueues the caller as a reader *)
(* exactly when the rwlock is write-locked, otherwise adds it as a       *)
(* reader (even when writers are queued); pthread_rwlock_wrlock blocks   *)
(* and enqueues the caller as a writer exactly when the rwlock has any   *)
(* reader or a writer, otherwise sets it as writer; tryrdlock and        *)
(* trywrlock return EBUSY in the respective blocking cases and leave the *)
(* rwlock and the caller's thread state unchanged.  The rwlock is one    *)
(* whose id field is initialised, that is, not yet destroyed.            *)
C13_RwlockLockCases ==
    [][\A a \in {b \in DOMAIN rwlock_mem : rwlock_mem[b].id # Undef} :
        LET r == RwLockOf(a)
            write_locked == r.writer # None
            locked == r.writer # None \/ DOMAIN r.readers # {}
        IN /\ (Did("pthread_rwlock_rdlock") /\ last'.obj = a)
                => IF write_locked
                   THEN /\ last'.ret = "0"
                        /\ CallerBlocked
                        /\ RwLockAfter(a)
                             = [r EXCEPT !.reader_queue
                                           = Append(@, active_thread)]
                   ELSE ReaderAdded(a)
           /\ (Did("pthread_rwlock_tryrdlock") /\ last'.obj = a)
                => IF write_locked
                   THEN last'.ret = "EBUSY" /\ RwLockUntouched(a)
                   ELSE ReaderAdded(a)
           /\ (Did("pthread_rwlock_wrlock") /\ last'.obj = a)
                => IF locked
                   THEN /\ last'.ret = "0"
                        /\ CallerBlocked
                        /\ RwLockAfter(a)
                             = [r EXCEPT !.writer_queue
                                           = Append(@, active_thread)]
                   ELSE WriterSet(a)
           /\ (Did("pthread_rwlock_trywrlock") /\ last'.obj = a)
                => IF locked
                   THEN last'.ret = "EBUSY" /\ RwLockUntouched(a)
                   ELSE WriterSet(a)]_vars

(* A read lock has been granted while a writer stands in the queue. *)
C13_Witness ==
    /\ last.op = "pthread_rwlock_rdlock"
    /\ last.ret = "0"
    /\ \E id \in DOMAIN rwlocks :
        /\ last.th \in DOMAIN rwlocks[id].readers
        /\ threads[last.th].state = Enabled
        /\ rwlocks[id].writer_queue # <<>>
        /\ Cardinality(DOMAIN rwlocks[id].readers) = 2

(* Guest mutex a has an id and the active thread owns it. *)
OwnedByCaller(a) ==
    /\ Allocated(mutex_mem, a)
    /\ mutexes[MutexId(Machine, a)].owner = Some(active_thread)

(* C14: pthread_mutex_lock on a mutex already owned by the calling       *)
(* thread stops the machine with Deadlock for kind NORMAL; returns       *)
(* EDEADLK for kind ERRORCHECK and leaves the mutex owner, lock count,   *)
(* waiter queue and the caller's thread state unchanged; returns 0 for   *)
(* kind RECURSIVE and increments the lock count by one; and raises       *)
(* undefined behaviour for any other kind.                               *)
C14_RelockByKind ==
    [][\A a \in DOMAIN mutex_mem :
        (/\ Did("pthread_mutex_lock")
         /\ last'.obj = a
         /\ OwnedByCaller(a))
        => LET m == MutexId(Machine, a)
               kind == mutex_mem[a].kind
           IN IF kind = Some(PTHREAD_MUTEX_NORMAL)
              THEN err' = "Deadlock"
              ELSE IF kind = Some(PTHREAD_MUTEX_ERRORCHECK)
              THEN /\ err' = "none"
                   /\ last'.ret = "EDEADLK"
                   /\ mutexes'[m] = mutexes[m]
                   /\ threads'[active_thread] = threads[active_thread]
              ELSE IF kind = Some(PTHREAD_MUTEX_RECURSIVE)
              THEN /\ err' = "none"
                   /\ last'.ret = "0"
                   /\ mutexes'[m]
                        = [mutexes[m] EXCEPT !.lock_count = @ + 1]
              ELSE err' = "UB"]_vars

(* The owner of an ERRORCHECK mutex has been refused a second lock. *)
C14_Witness ==
    /\ last.op = "pthread_mutex_lock"
    /\ last.ret = "EDEADLK"
    /\ \E a \in DOMAIN mutex_mem :
        /\ last.obj = a
        /\ mutex_mem[a].kind = Some(PTHREAD_MUTEX_ERRORCHECK)
        /\ mutexes[MutexId(Machine, a)].owner = Some(last.th)
        /\ mutexes[MutexId(Machine, a)].lock_count = 1

(* n calls of pthread_mutex_lock, then of pthread_mutex_unlock, by the *)
(* active thread of machine st on guest mutex a.                       *)
RECURSIVE LockTimes(_, _, _)
LockTimes(st, a, n) ==
    IF n = 0 THEN st ELSE LockTimes(pthread_mutex_lock(st, a), a, n - 1)

RECURSIVE UnlockTimes(_, _, _)
UnlockTimes(st, a, n) ==
    IF n = 0 THEN st ELSE UnlockTimes(pthread_mutex_unlock(st, a), a, n - 1)

(* Guest mutex a is held by nobody: it has no id yet, or its mutex is *)
(* unlocked.                                                          *)
Free(a) ==
    \/ mutex_mem[a].id = Some(0)
    \/ /\ Allocated(mutex_mem, a)
       /\ mutexes[MutexId(Machine, a)].owner = None

(* C15: for a RECURSIVE mutex and every n >= 1, after one thread locks *)
(* it n times and unlocks it n times the mutex is unlocked, has the id *)
(* it was locked under and an empty waiter queue; and a thread waiting *)
(* on the mutex is handed ownership only by the unlock that brings the *)
(* count to 0, not by any earlier unlock.                              *)
C15_RecursiveBalance ==
    /\ [](\A a \in DOMAIN mutex_mem :
            (/\ Stepping
             /\ mutex_mem[a].kind = Some(PTHREAD_MUTEX_RECURSIVE)
             /\ Free(a))
            => \A n \in 1..MaxLockCount :
                 LET locked == LockTimes(Machine, a, n)
                     after == UnlockTimes(locked, a, n)
                     m == MutexId(locked, a)
                 IN /\ Ok(after)
                    /\ locked.mutexes[m].owner = Some(active_thread)
                    /\ locked.mutexes[m].lock_count = n
                    /\ after.mutex_mem[a].id = Some(m)
                    /\ after.mutexes[m] = MutexDefault
                    /\ after.threads = threads)
    /\ [][\A a \in DOMAIN mutex_mem :
            (/\ Did("pthread_mutex_unlock")
             /\ last'.obj = a
             /\ mutex_mem[a].kind = Some(PTHREAD_MUTEX_RECURSIVE)
             /\ OwnedByCaller(a))
            => LET m == MutexId(Machine, a)
                   queue == mutexes[m].queue
               IN /\ last'.ret = "0"
                  /\ mutex_mem'[a] = mutex_mem[a]
                  /\ IF mutexes[m].lock_count > 1
                     THEN /\ mutexes'[m]
                               = [mutexes[m] EXCEPT !.lock_count = @ - 1]
                          /\ threads' = threads
                     ELSE IF queue = <<>>
                     THEN /\ mutexes'[m] = MutexDefault
                          /\ threads' = threads
                     ELSE /\ mutexes'[m].owner = Some(Head(queue))
                          /\ mutexes'[m].lock_count = 1
                          /\ mutexes'[m].queue = Tail(queue)
                          /\ threads'[Head(queue)].state = Enabled]_vars

(* The owner of a RECURSIVE mutex has given up one of its two locks and *)
(* the thread waiting for the mutex is still blocked in its queue.      *)
C15_Witness ==
    /\ last.op = "pthread_mutex_unlock"
    /\ last.ret = "0"
    /\ \E a \in DOMAIN mutex_mem :
        /\ last.obj = a
        /\ mutex_mem[a].kind = Some(PTHREAD_MUTEX_RECURSIVE)
        /\ mutexes[MutexId(Machine, a)].owner = Some(last.th)
        /\ mutexes[MutexId(Machine, a)].lock_count = 1
        /\ mutexes[MutexId(Machine, a)].queue # <<>>
        /\ \A i \in DOMAIN mutexes[MutexId(Machine, a)].queue :
             threads[mutexes[MutexId(Machine, a)].queue[i]].state
                = BlockedOnSync

(* n consecutive pthread_mutex_lock; pthread_mutex_unlock pairs by the *)
(* active thread of machine st on guest mutex a.                       *)
RECURSIVE LockUnlockPairs(_, _, _)
LockUnlockPairs(st, a, n) ==
    IF n = 0 THEN st
    ELSE LockUnlockPairs(
             pthread_mutex_unlock(pthread_mutex_lock(st, a), a), a, n - 1)

(* Owner, lock count and waiter queue of guest mutex a in machine st; *)
(* a mutex without an id yet is the unlocked default.                 *)
MutexOf(st, a) ==
    IF st.mutex_mem[a].id = Some(0) THEN MutexDefault
    ELSE st.mutexes[MutexId(st, a)]

(* Guest mutexes of kind NORMAL or ERRORCHECK that the active thread, *)
(* about to step, finds free.                                         *)
FreePlainMutexes ==
    {a \in DOMAIN mutex_mem :
        /\ Stepping
        /\ mutex_mem[a].kind \in {Some(PTHREAD_MUTEX_NORMAL),
                                  Some(PTHREAD_MUTEX_ERRORCHECK)}
        /\ Free(a)}

(* C16 as stated: for a NORMAL or ERRORCHECK mutex and every N >= 0, N *)
(* consecutive lock; unlock pairs by one thread leave the mutex's      *)
(* owner, lock count, waiter queue, stored id and kind, and all thread *)
(* states the same as before the first lock.                           *)
C16_PairsChangeNothing ==
    \A a \in FreePlainMutexes :
        \A n \in 0..MaxPairs :
            LET after == LockUnlockPairs(Machine, a, n)
            IN /\ Ok(after)
               /\ MutexOf(after, a) = MutexOf(Machine, a)
               /\ after.mutex_mem[a] = mutex_mem[a]
               /\ after.threads = threads

(* C16: for a NORMAL or ERRORCHECK mutex and every N >= 0, N lock;     *)
(* unlock pairs by one thread leave the mutex's owner, lock count,     *)
(* waiter queue and kind and all thread states the same as before the  *)
(* first lock; the stored id is the same too if the mutex had an id,   *)
(* but a mutex whose id field was still 0 comes out of the first lock  *)
(* with a newly allocated id and keeps it.                             *)
C16_PairsChangeOnlyFreshId ==
    \A a \in FreePlainMutexes :
        \A n \in 0..MaxPairs :
            LET after == LockUnlockPairs(Machine, a, n)
            IN /\ Ok(after)
               /\ MutexOf(after, a) = MutexOf(Machine, a)
               /\ after.mutex_mem[a].kind = mutex_mem[a].kind
               /\ after.threads = threads
               /\ IF Allocated(mutex_mem, a) \/ n = 0
                  THEN /\ after.mutex_mem[a].id = mutex_mem[a].id
                       /\ after.mutexes = mutexes
                  ELSE /\ after.mutex_mem[a].id = Some(Len(mutexes) + 1)
                       /\ after.mutexes = Append(mutexes, MutexDefault)

(* A thread has locked a NORMAL or ERRORCHECK mutex that had no id and *)
(* has just unlocked it again: the mutex is free under its new id.    *)
C16_Witness ==
    /\ last.op = "pthread_mutex_unlock"
    /\ last.ret = "0"
    /\ \E a \in DOMAIN mutex_mem :
        /\ last.obj = a
        /\ mutex_mem[a].kind \in {Some(PTHREAD_MUTEX_NORMAL),
                                  Some(PTHREAD_MUTEX_ERRORCHECK)}
        /\ mutex_mem[a].id = Some(1)
        /\ mutexes[1] = MutexDefault
        /\ \A t \in DOMAIN threads : threads[t].state = Enabled

(* Owner, lock count and waiter queue of guest mutex a before and after *)
(* the step, which may have given the mutex its id.                     *)
MutexBefore(a) == MutexOf(Machine, a)

MutexAfter(a) == mutexes'[The(mutex_mem'[a].id)]

(* C17: pthread_mutex_trylock never blocks the caller: it returns EBUSY *)
(* when the mutex is owned by another thread, or by the caller with     *)
(* kind NORMAL or ERRORCHECK, and in those cases the mutex owner, lock  *)
(* count, waiter queue and the caller's Enabled state are unchanged; it *)
(* locks an unlocked mutex and recursively re-locks a RECURSIVE mutex   *)
(* owned by the caller, returning 0.  The mutex is one whose id and     *)
(* kind fields are initialised.                                         *)
C17_TrylockNeverBlocks ==
    [][\A a \in DOMAIN mutex_mem :
        (/\ Did("pthread_mutex_trylock")
         /\ last'.obj = a
         /\ mutex_mem[a].id # Undef
         /\ mutex_mem[a].kind # Undef)
        => LET before == MutexBefore(a)
               kind == mutex_mem[a].kind
           IN /\ threads' = threads
              /\ threads'[active_thread].state = Enabled
              /\ IF before.owner = None
                 THEN /\ last'.ret = "0"
                      /\ MutexAfter(a)
                           = [before EXCEPT !.owner = Some(active_thread),
                                            !.lock_count = 1]
                 ELSE IF before.owner # Some(active_thread)
                         \/ kind = Some(PTHREAD_MUTEX_NORMAL)
                         \/ kind = Some(PTHREAD_MUTEX_ERRORCHECK)
                 THEN /\ last'.ret = "EBUSY"
                      /\ err' = "none"
                      /\ MutexAfter(a) = before
                 ELSE kind = Some(PTHREAD_MUTEX_RECURSIVE)
                      => /\ last'.ret = "0"
                         /\ MutexAfter(a)
                              = [before EXCEPT !.lock_count = @ + 1]]_vars

(* A trylock on a mutex that another thread holds, with a waiter in *)
(* its queue, has returned EBUSY.                                   *)
C17_Witness ==
    /\ last.op = "pthread_mutex_trylock"
    /\ last.ret = "EBUSY"
    /\ threads[last.th].state = Enabled
    /\ \E a \in DOMAIN mutex_mem :
        /\ last.obj = a
        /\ mutexes[MutexId(Machine, a)].owner # None
        /\ mutexes[MutexId(Machine, a)].owner # Some(last.th)
        /\ mutexes[MutexId(Machine, a)].queue # <<>>

(* C18: pthread_mutex_unlock on a locked mutex whose owner is not the  *)
(* calling thread raises undefined behaviour for every mutex kind; on  *)
(* an already unlocked mutex it raises undefined behaviour for kind    *)
(* NORMAL and returns EPERM for kinds ERRORCHECK and RECURSIVE,        *)
(* leaving the mutex unlocked with its waiter queue unchanged.  The    *)
(* mutex is one whose id and kind fields are initialised.              *)
C18_UnlockErrors ==
    [][\A a \in DOMAIN mutex_mem :
        (/\ Did("pthread_mutex_unlock")
         /\ last'.obj = a
         /\ mutex_mem[a].id # Undef
         /\ mutex_mem[a].kind # Undef)
        => LET before == MutexBefore(a)
               kind == mutex_mem[a].kind
           IN IF before.owner = None
              THEN IF kind = Some(PTHREAD_MUTEX_NORMAL)
                   THEN err' = "UB"
                   ELSE (kind = Some(PTHREAD_MUTEX_ERRORCHECK)
                         \/ kind = Some(PTHREAD_MUTEX_RECURSIVE))
                        => /\ err' = "none"
                           /\ last'.ret = "EPERM"
                           /\ MutexAfter(a).owner = None
                           /\ MutexAfter(a).lock_count = 0
                           /\ MutexAfter(a).queue = before.queue
                           /\ threads' = threads
              ELSE before.owner # Some(active_thread) => err' = "UB"]_vars

(* A thread has called unlock on an ERRORCHECK mutex that another *)
(* thread holds, and the interpreter has stopped with undefined   *)
(* behaviour.                                                     *)
C18_Witness ==
    /\ last.op = "pthread_mutex_unlock"
    /\ last.ret = "UB"
    /\ err = "UB"
    /\ \E a \in DOMAIN mutex_mem :
        /\ last.obj = a
        /\ mutex_mem[a].kind = Some(PTHREAD_MUTEX_ERRORCHECK)
        /\ Allocated(mutex_mem, a)

(* The step is a pthread_cond_wait or pthread_cond_timedwait by the *)
(* active thread on guest mutex a.                                  *)
DidWaitOn(a) ==
    /\ Did("pthread_cond_wait") \/ Did("pthread_cond_timedwait")
    /\ last'.arg = a
    /\ mutex_mem[a].id # Undef

(* After the step the thread that took it stands in no condvar's waiters. *)
CallerNotEnqueued ==
    \A c \in DOMAIN condvars' :
        \A i \in DOMAIN condvars'[c].waiters :
            condvars'[c].waiters[i][1] # active_thread

(* C19: pthread_cond_wait and pthread_cond_timedwait fail fatally       *)
(* without enqueuing the caller on the condvar when the mutex is not    *)
(* held exactly once by the caller: undefined behaviour if the mutex is *)
(* unlocked, undefined behaviour if the mutex is owned by a different   *)
(* thread, and unsupported if the caller holds the mutex recursively    *)
(* (lock count greater than 1).                                         *)
C19_WaitNeedsMutexHeldOnce ==
    [][\A a \in DOMAIN mutex_mem :
        DidWaitOn(a)
        => LET before == MutexBefore(a)
           IN IF before.owner = None
              THEN err' = "UB" /\ CallerNotEnqueued
              ELSE IF before.owner # Some(active_thread)
              THEN err' = "UB" /\ CallerNotEnqueued
              ELSE before.lock_count > 1
                   => err' = "Unsupported" /\ CallerNotEnqueued]_vars

(* What release_cond_mutex does: the lock count is looked at before the *)
(* owner, so a mutex held more than once is reported as unsupported     *)
(* whoever holds it, and only a mutex held once by another thread is    *)
(* reported as undefined behaviour.                                     *)
WaitChecksCountFirst ==
    [][\A a \in DOMAIN mutex_mem :
        DidWaitOn(a)
        => LET before == MutexBefore(a)
           IN IF before.owner = None
              THEN err' = "UB" /\ CallerNotEnqueued
              ELSE IF before.lock_count > 1
              THEN err' = "Unsupported" /\ CallerNotEnqueued
              ELSE before.owner # Some(active_thread)
                   => err' = "UB" /\ CallerNotEnqueued]_vars

(* Guest condvar c has no waiters: it has no id yet, or its waiter list *)
(* is empty.                                                            *)
NoWaiters(c) ==
    \/ cond_mem[c].id = Some(0)
    \/ /\ Allocated(cond_mem, c)
       /\ condvars[CondvarId(Machine, c)].waiters = <<>>

(* C20: pthread_cond_signal on a condvar with no waiters returns 0 and *)
(* changes nothing: every thread state, every mutex owner, count and   *)
(* queue, every condvar waiter list and the timeout-callback table are *)
(* the same as before the call; a condvar that gets its id by the call *)
(* starts with an empty waiter list.                                   *)
C20_SignalWithoutWaiters ==
    [][\A c \in DOMAIN cond_mem :
        (/\ Did("pthread_cond_signal")
         /\ last'.obj = c
         /\ NoWaiters(c))
        => /\ err' = "none"
           /\ last'.ret = "0"
           /\ threads' = threads
           /\ mutexes' = mutexes
           /\ timeout_callbacks' = timeout_callbacks
           /\ \A id \in DOMAIN condvars' :
                IF id \in DOMAIN condvars
                THEN condvars'[id].waiters = condvars[id].waiters
                ELSE condvars'[id].waiters = <<>>]_vars

(* A thread holding the mutex has signalled a condvar nobody waits on,  *)
(* while another thread sleeps on a registered timeout: no waiter stands *)
(* in the mutex queue, so none was woken.                               *)
C20_Witness ==
    /\ last.op = "pthread_cond_signal"
    /\ last.ret = "0"
    /\ \A c \in DOMAIN condvars : condvars[c].waiters = <<>>
    /\ timeout_callbacks # {}
    /\ \E m \in DOMAIN mutexes :
        /\ mutexes[m].owner = Some(last.th)
        /\ mutexes[m].queue = <<>>
    /\ \A t \in DOMAIN threads :
         threads[t].state = BlockedOnSync => Sleeping(t)

(* The waiter list of guest condvar c before the step; a condvar that *)
(* has no id yet has no waiters.                                      *)
WaitersBefore(c) ==
    IF Allocated(cond_mem, c) THEN condvars[CondvarId(Machine, c)].waiters
    ELSE <<>>

(* The threads of waiter list w that wait with mutex m, in list order. *)
WaitersOn(w, m) ==
    LET on == SelectSeq(w, LAMBDA e : e[2] = m)
    IN [i \in 1..Len(on) |-> on[i][1]]

(* C21: pthread_cond_broadcast returns 0 and leaves the condvar with an  *)
(* empty waiter list; every former waiter (T, M) is afterwards either    *)
(* the Enabled owner of M or still BlockedOnSync in M's waiter queue, in *)
(* the order the waiters were enqueued on the condvar, and has no        *)
(* registered timeout callback; a broadcast on a condvar without         *)
(* waiters, as a second broadcast finds it, returns 0 and changes        *)
(* nothing.                                                              *)
C21_BroadcastWakesAllInOrder ==
    [][\A c \in DOMAIN cond_mem :
        (/\ Did("pthread_cond_broadcast")
         /\ last'.obj = c
         /\ cond_mem[c].id # Undef)
        => LET w == WaitersBefore(c)
               again == pthread_cond_broadcast(
                            pthread_cond_broadcast(Machine, c), c)
           IN /\ err' = "none"
              /\ last'.ret = "0"
              /\ condvars'[The(cond_mem'[c].id)].waiters = <<>>
              /\ \A m \in DOMAIN mutexes :
                   LET on == WaitersOn(w, m)
                   IN IF mutexes[m].owner = None /\ on # <<>>
                      THEN /\ mutexes'[m].owner = Some(Head(on))
                           /\ mutexes'[m].lock_count = 1
                           /\ mutexes'[m].queue = mutexes[m].queue \o Tail(on)
                           /\ threads'[Head(on)].state = Enabled
                           /\ \A i \in DOMAIN Tail(on) :
                                threads'[Tail(on)[i]].state = BlockedOnSync
                      ELSE /\ mutexes'[m].owner = mutexes[m].owner
                           /\ mutexes'[m].lock_count = mutexes[m].lock_count
                           /\ mutexes'[m].queue = mutexes[m].queue \o on
                           /\ \A i \in DOMAIN on :
                                threads'[on[i]].state = BlockedOnSync
              /\ \A i \in DOMAIN w :
                   \A cb \in timeout_callbacks' : cb.thread # w[i][1]
              /\ w = <<>> => /\ threads' = threads
                             /\ mutexes' = mutexes
                             /\ timeout_callbacks' = timeout_callbacks
                             /\ \A id \in DOMAIN condvars :
                                  condvars'[id] = condvars[id]
              /\ Ok(again)
              /\ again.ret = "0"
              /\ again.threads = threads'
              /\ again.mutexes = mutexes'
              /\ again.condvars = condvars'
              /\ again.timeout_callbacks = timeout_callbacks'
              /\ again.cond_mem = cond_mem']_vars

(* A broadcast has woken two waiters of a free mutex: the first one owns *)
(* the mutex and the second stands in its queue.                         *)
C21_Witness ==
    /\ last.op = "pthread_cond_broadcast"
    /\ last.ret = "0"
    /\ \A c \in DOMAIN condvars : condvars[c].waiters = <<>>
    /\ \E m \in DOMAIN mutexes :
        /\ mutexes[m].owner # None
        /\ mutexes[m].owner # Some(last.th)
        /\ threads[The(mutexes[m].owner)].state = Enabled
        /\ mutexes[m].queue # <<>>
        /\ last.th \notin Queued(mutexes[m].queue)

(* C22: pthread_mutex_destroy, pthread_rwlock_destroy and              *)
(* pthread_cond_destroy return 0 exactly when the primitive is not     *)
(* locked (mutex, rwlock) or not awaited (condvar), including a        *)
(* primitive whose stored id is still zero, and then overwrite the     *)
(* stored id with the undefined marker; otherwise they raise undefined *)
(* behaviour and leave the primitive's owner, readers, writer and      *)
(* queues unchanged.  The primitive is one whose id field is           *)
(* initialised, that is, not destroyed before.                         *)
C22_DestroyOnlyWhenFree ==
    [][/\ \A a \in DOMAIN mutex_mem :
            (/\ Did("pthread_mutex_destroy")
             /\ last'.obj = a
             /\ mutex_mem[a].id # Undef)
            => IF MutexBefore(a).owner = None
               THEN /\ err' = "none"
                    /\ last'.ret = "0"
                    /\ mutex_mem'[a].id = Undef
               ELSE /\ err' = "UB"
                    /\ mutexes' = mutexes
                    /\ mutex_mem' = mutex_mem
       /\ \A a \in DOMAIN rwlock_mem :
            (/\ Did("pthread_rwlock_destroy")
             /\ last'.obj = a
             /\ rwlock_mem[a].id # Undef)
            => IF /\ RwLockOf(a).writer = None
                  /\ DOMAIN RwLockOf(a).readers = {}
               THEN /\ err' = "none"
                    /\ last'.ret = "0"
                    /\ rwlock_mem'[a].id = Undef
               ELSE /\ err' = "UB"
                    /\ rwlocks' = rwlocks
                    /\ rwlock_mem' = rwlock_mem
       /\ \A c \in DOMAIN cond_mem :
            (/\ Did("pthread_cond_destroy")
             /\ last'.obj = c
             /\ cond_mem[c].id # Undef)
            => IF WaitersBefore(c) = <<>>
               THEN /\ err' = "none"
                    /\ last'.ret = "0"
                    /\ cond_mem'[c].id = Undef
               ELSE /\ err' = "UB"
                    /\ condvars' = condvars
                    /\ cond_mem' = cond_mem]_vars

(* The first shim call of the program has destroyed a mutex whose id *)
(* was still zero.                                                   *)
C22_Witness ==
    /\ last.op = "pthread_mutex_destroy"
    /\ last.ret = "0"
    /\ fuel = <<MaxOps - 1>>
    /\ \E a \in DOMAIN mutex_mem :
        /\ last.obj = a
        /\ mutex_mem[a].id = Undef
        /\ mutexes = <<MutexDefault>>

(* schedule() finds the active thread Enabled with an empty stack. *)
ActiveJustFinished ==
    /\ threads[active_thread].state = Enabled
    /\ threads[active_thread].stack = 0

(* C23: when schedule() finds that the active thread is Enabled with an *)
(* empty stack, it marks it Terminated, sets every thread whose state   *)
(* is BlockedOnJoin(active) to Enabled in that same call, changes no    *)
(* other thread's state, and returns ExecuteDtors; hence no thread is   *)
(* ever left BlockedOnJoin(t) once t is Terminated.                     *)
C23_TerminationWakesJoiner ==
    /\ [][(DidSchedule /\ ActiveJustFinished)
            => /\ sched' = "ExecuteDtors"
               /\ err' = "none"
               /\ active_thread' = active_thread
               /\ DOMAIN threads' = DOMAIN threads
               /\ \A t \in DOMAIN threads :
                    threads'[t]
                      = IF t = active_thread
                        THEN [threads[t] EXCEPT !.state = Terminated]
                        ELSE IF threads[t].state
                                  = BlockedOnJoin(active_thread)
                        THEN [threads[t] EXCEPT !.state = Enabled]
                        ELSE threads[t]]_vars
    /\ [](\A t, u \in DOMAIN threads :
            threads[u].state = BlockedOnJoin(t)
            => threads[t].state # Terminated)

(* schedule() has just seen the end of a thread that another thread had *)
(* begun to join, and that other thread is Enabled.                     *)
C23_Witness ==
    /\ last.op = "schedule"
    /\ last.ret = "ExecuteDtors"
    /\ threads[active_thread].state = Terminated
    /\ threads[active_thread].join_status = "Joined"
    /\ \A t \in DOMAIN threads :
         threads[t].state # BlockedOnJoin(active_thread)
    /\ \E t \in DOMAIN threads : threads[t].state = Enabled

(* The step is a pthread_join of thread t with a null retval, the only *)
(* form that reaches join_thread.                                      *)
DidJoin(t) ==
    /\ Did("pthread_join")
    /\ last'.arg = "NULL"
    /\ last'.obj = ThreadArg(t)

(* C24: join_thread(target) fails, leaving every thread's state and join *)
(* status unchanged, when target is not Joinable or target is the active *)
(* thread; otherwise it marks target Joined and sets the active thread   *)
(* to BlockedOnJoin(target) if and only if target is not Terminated      *)
(* (joining an already Terminated thread leaves the caller Enabled).     *)
C24_JoinThread ==
    [][\A target \in DOMAIN threads :
        DidJoin(target)
        => IF threads[target].join_status # "Joinable"
              \/ target = active_thread
           THEN /\ err' = "UB"
                /\ threads' = threads
           ELSE /\ err' = "none"
                /\ last'.ret = "0"
                /\ threads'
                     = [t \in DOMAIN threads |->
                          IF t = target
                          THEN [threads[t] EXCEPT !.join_status = "Joined"]
                          ELSE IF t = active_thread
                                  /\ threads[target].state # Terminated
                          THEN [threads[t] EXCEPT
                                  !.state = BlockedOnJoin(target)]
                          ELSE threads[t]]]_vars

(* A thread has joined a thread that had already terminated and is *)
(* still Enabled.                                                  *)
C24_Witness ==
    /\ last.op = "pthread_join"
    /\ last.ret = "0"
    /\ threads[last.th].state = Enabled
    /\ \E t \in DOMAIN threads :
        /\ last.obj = ThreadArg(t)
        /\ threads[t].state = Terminated
        /\ threads[t].join_status = "Joined"

(* The threads blocked in a join of thread t. *)
Joiners(t) == {u \in DOMAIN threads : threads[u].state = BlockedOnJoin(t)}

(* C25: in every reachable state, for every thread t at most one thread *)
(* has state BlockedOnJoin(t), and no thread has state BlockedOnJoin(t)  *)
(* while t's join status is Joinable; a Joined thread stays Joined and a *)
(* join of it fails without blocking the caller, so the assertion of     *)
(* join_thread that no thread is already waiting on the target never     *)
(* fails.                                                                *)
C25_OneJoinerPerThread ==
    /\ [](\A t \in DOMAIN threads :
            /\ Cardinality(Joiners(t)) <= 1
            /\ Joiners(t) # {} => threads[t].join_status = "Joined")
    /\ [](err # "Panic")
    /\ [][\A t \in DOMAIN threads :
            threads[t].join_status = "Joined"
            => /\ threads'[t].join_status = "Joined"
               /\ DidJoin(t) => err' = "UB" /\ Joiners(t)' = Joiners(t)]_vars

(* While one thread is blocked joining t, another thread has tried to *)
(* join t too and has been refused.                                   *)
C25_Witness ==
    /\ last.op = "pthread_join"
    /\ last.ret = "UB"
    /\ \E t \in DOMAIN threads :
        /\ last.obj = ThreadArg(t)
        /\ t # last.th
        /\ Joiners(t) # {}
        /\ last.th \notin Joiners(t)

(* C26: once the main thread is Terminated (and the active thread has   *)
(* not just terminated), schedule() returns Stop if and only if every   *)
(* thread is Terminated, and otherwise fails with an unsupported error; *)
(* it never returns ExecuteStep or ExecuteTimeoutCallback after main    *)
(* has terminated.                                                      *)
C26_StopAfterMain ==
    [][(/\ DidSchedule
        /\ threads[MAIN_THREAD].state = Terminated
        /\ ~ActiveJustFinished)
        => /\ threads' = threads
           /\ IF AllTerminated
              THEN sched' = "Stop" /\ err' = "none"
              ELSE sched' = "Error" /\ err' = "Unsupported"]_vars

(* The program has stopped after main and the thread it created had *)
(* both terminated.                                                 *)
C26_Witness ==
    /\ last.op = "schedule"
    /\ last.ret = "Stop"
    /\ sched = "Stop"
    /\ Cardinality(DOMAIN threads) >= 2
    /\ AllTerminated

(* C27: the scheduler never preempts: whenever the active thread is    *)
(* Enabled with a non-empty stack, the main thread is not Terminated   *)
(* and the yield flag is clear, schedule() returns ExecuteStep and     *)
(* leaves the active thread id and every thread state unchanged,       *)
(* regardless of which other threads are Enabled or which timeout      *)
(* callbacks are pending.                                              *)
C27_NoPreemption ==
    [][(/\ DidSchedule
        /\ threads[active_thread].state = Enabled
        /\ threads[active_thread].stack > 0
        /\ threads[MAIN_THREAD].state # Terminated
        /\ ~yield_active_thread)
        => /\ sched' = "ExecuteStep"
           /\ err' = "none"
           /\ active_thread' = active_thread
           /\ threads' = threads
           /\ timeout_callbacks' = timeout_callbacks]_vars

(* schedule() has kept the active thread running although another     *)
(* thread is Enabled and the timeout of a sleeping thread has passed. *)
C27_Witness ==
    /\ last.op = "schedule"
    /\ last.ret = "ExecuteStep"
    /\ last.th = active_thread
    /\ \E t \in DOMAIN threads :
         t # active_thread /\ threads[t].state = Enabled
    /\ \E cb \in timeout_callbacks : cb.call_time <= now

(* schedule() gets as far as picking a thread: the active thread has not *)
(* just finished, main has not terminated, and the active thread is not  *)
(* Enabled or has yielded.                                               *)
MustPick ==
    /\ DidSchedule
    /\ ~ActiveJustFinished
    /\ threads[MAIN_THREAD].state # Terminated
    /\ threads[active_thread].state # Enabled \/ yield_active_thread

(* The threads the pick is made among. *)
Candidates ==
    {t \in DOMAIN threads :
        /\ threads[t].state = Enabled
        /\ yield_active_thread => t # active_thread}

(* C28 as stated: when schedule() must pick a new thread it makes active *)
(* the lowest-index Enabled thread, excluding the current active thread  *)
(* when the yield flag is set, returns ExecuteStep, and leaves the yield *)
(* flag clear.                                                           *)
C28_PicksLowestEnabled ==
    [][MustPick
        => /\ Candidates # {}
           /\ active_thread' = Min(Candidates)
           /\ sched' = "ExecuteStep"
           /\ ~yield_active_thread']_vars

(* C28: when schedule() must pick a new thread and some Enabled thread  *)
(* qualifies (any Enabled thread, or any other than the active one when *)
(* the yield flag is set), it makes the lowest-index such thread active *)
(* and returns ExecuteStep; when the yield flag is set and the active   *)
(* thread is the only Enabled one it keeps that thread and returns      *)
(* ExecuteStep; when no thread is Enabled it keeps the active thread    *)
(* and returns ExecuteTimeoutCallback if a callback is registered, else *)
(* stops with Deadlock.  In every case the yield flag is left clear and *)
(* no thread state changes.                                             *)
C28_PicksLowestEnabledIfAny ==
    [][MustPick
        => /\ ~yield_active_thread'
           /\ threads' = threads
           /\ IF Candidates # {}
              THEN /\ active_thread' = Min(Candidates)
                   /\ sched' = "ExecuteStep"
              ELSE /\ active_thread' = active_thread
                   /\ IF threads[active_thread].state = Enabled
                      THEN sched' = "ExecuteStep"
                      ELSE IF timeout_callbacks # {}
                      THEN sched' = "ExecuteTimeoutCallback"
                      ELSE sched' = "Error" /\ err' = "Deadlock"]_vars

(* The main thread has yielded and schedule() has made thread 1 active, *)
(* passing over the main thread, which is still Enabled.                *)
C28_Witness ==
    /\ last.op = "schedule"
    /\ last.ret = "ExecuteStep"
    /\ last.th = MAIN_THREAD
    /\ active_thread = 1
    /\ threads[MAIN_THREAD].state = Enabled
    /\ ~yield_active_thread

(* The callbacks registered for thread t. *)
CallbacksOf(t) == {c \in timeout_callbacks : c.thread = t}

(* A shim call that registers a timeout callback for its caller. *)
DidRegisteringCall == Did("nanosleep") \/ Did("pthread_cond_timedwait")

(* C29: in every reachable state each thread has at most one registered   *)
(* timeout callback and no panic has been raised, and neither nanosleep   *)
(* nor pthread_cond_timedwait is ever called by a thread that has a       *)
(* callback pending, so register_timeout_callback never finds one.        *)
C29_NoDoubleRegister ==
    /\ [](/\ \A t \in DOMAIN threads : Cardinality(CallbacksOf(t)) <= 1
          /\ err # "Panic")
    /\ [][DidRegisteringCall => ~HasCallback(Machine, active_thread)]_vars

(* A thread whose timed wait has timed out has gone to sleep, registering *)
(* its second callback, while another thread's callback is pending too.   *)
C29_Witness ==
    /\ last.op = "nanosleep"
    /\ last.ret = "0"
    /\ slot[last.th] = "ETIMEDOUT"
    /\ Cardinality(CallbacksOf(last.th)) = 1
    /\ Cardinality(timeout_callbacks) = 2

(* The nanosleep callbacks registered for thread t. *)
SleepCallbacksOf(t) ==
    {c \in timeout_callbacks : c.thread = t /\ c.callback = SleepTimeout}

(* A nanosleep call blocks its caller and registers for it exactly one *)
(* callback, due at the time of the call plus the requested duration.  *)
SleepRegisters ==
    Did("nanosleep")
        => /\ last'.ret = "0"
           /\ threads'[active_thread].state = BlockedOnSync
           /\ \E d \in 0..MaxTime :
                /\ last'.arg = ToString(d)
                /\ timeout_callbacks' = timeout_callbacks \cup
                       {[thread |-> active_thread, call_time |-> now + d,
                         callback |-> SleepTimeout]}

(* A sleeper whose time has not come stays blocked and registered. *)
SleepLasts ==
    \A t \in DOMAIN threads :
        \A c \in SleepCallbacksOf(t) :
            c.call_time > now'
                => /\ threads'[t].state = BlockedOnSync
                   /\ c \in timeout_callbacks'

(* A step that runs a timeout callback takes one whose time has passed. *)
OnlyReadyCallbacksRun ==
    (sched = "ExecuteTimeoutCallback" /\ last'.op = "run_timeout_callback")
        => \A c \in timeout_callbacks \ timeout_callbacks' :
               c.call_time <= now

(* C30: a thread that calls nanosleep becomes BlockedOnSync with a       *)
(* callback due at the time of the call plus the requested duration; it  *)
(* stays BlockedOnSync, its callback registered, through every step that *)
(* ends before the clock has reached that time; and a step that runs a   *)
(* timeout callback only takes one whose call_time has passed.           *)
C30_SleepLastsUntilTimeout ==
    /\ [](\A t \in DOMAIN threads :
            SleepCallbacksOf(t) # {} => threads[t].state = BlockedOnSync)
    /\ [][SleepRegisters /\ SleepLasts /\ OnlyReadyCallbacksRun]_vars

(* A thread that slept for one unit has been woken by its callback, at *)
(* the time it asked for, while an earlier state had it blocked.       *)
C30_Witness ==
    /\ last.op = "run_timeout_callback"
    /\ last.obj = "nanosleep"
    /\ now = MaxTime
    /\ \E t \in DOMAIN threads :
         /\ ThreadArg(t) = ThreadArg(last.th)
         /\ threads[t].state = Enabled
         /\ SleepCallbacksOf(t) = {}

(* A step that runs a timeout callback. *)
DidRunCallback ==
    sched = "ExecuteTimeoutCallback" /\ last'.op = "run_timeout_callback"

(* C31: run_timeout_callback invokes the ready callback on a machine    *)
(* whose active thread is the callback's owner, and when the callback   *)
(* succeeds the active thread id after the call is the one before it,   *)
(* while the owner has been unblocked or queued on its mutex.           *)
C31_CallbackRunsOnOwner ==
    [][DidRunCallback
        => LET ready == get_ready_callback(Machine, now)
           IN /\ ready # None
              /\ CallbackMachine(Machine, The(ready)).active_thread
                     = The(ready).thread
              /\ err' = "none" => active_thread' = active_thread]_vars

(* A callback has run for a thread other than the active one and has *)
(* enabled its owner; the active thread is still the other thread.   *)
C31_Witness ==
    /\ last.op = "run_timeout_callback"
    /\ err = "none"
    /\ \E t \in DOMAIN threads :
         /\ ThreadArg(t) = ThreadArg(last.th)
         /\ t # active_thread
         /\ threads[t].state = Enabled

(* C32: pthread_create returns 0, adds exactly one thread, whose id is  *)
(* the previous thread count and which is Enabled and Joinable with its *)
(* first frame pushed, leaves the state and join status of every        *)
(* existing thread unchanged, and leaves the creating thread active.    *)
C32_CreateAddsOneThread ==
    [][Did("pthread_create")
        => LET new_thread_id == Cardinality(DOMAIN threads)
           IN /\ last'.ret = "0"
              /\ err' = "none"
              /\ DOMAIN threads' = DOMAIN threads \cup {new_thread_id}
              /\ new_thread_id \notin DOMAIN threads
              /\ threads'[new_thread_id].state = Enabled
              /\ threads'[new_thread_id].join_status = "Joinable"
              /\ threads'[new_thread_id].stack = 1
              /\ \A t \in DOMAIN threads :
                   /\ threads'[t].state = threads[t].state
                   /\ threads'[t].join_status = threads[t].join_status
              /\ active_thread' = active_thread]_vars

(* Thread 1 has created thread 2 while the main thread is blocked in a *)
(* join: the creator is still active and the main thread still blocked. *)
C32_Witness ==
    /\ last.op = "pthread_create"
    /\ last.ret = "0"
    /\ last.th = 1
    /\ active_thread = 1
    /\ DOMAIN threads = 0..2
    /\ threads[MAIN_THREAD].state = BlockedOnJoin(1)
    /\ threads[2].state = Enabled
    /\ threads[2].join_status = "Joinable"

(* The allocations that hold thread t's instances of thread-local statics. *)
InstancesOf(t) ==
    {thread_local_alloc_ids[k] :
        k \in {j \in DOMAIN thread_local_alloc_ids : j[2] = t}}

(* The allocation the step just taken has read, if it was a read. *)
CellRead(id) ==
    \/ /\ Did("static_read")
       /\ id = RemappedAllocId(Machine, last'.obj)
    \/ /\ Did("pointer_read")
       /\ id \in pointers
       /\ last'.obj = ToString(id)

(* An access by name to a static, or the taking of a pointer to it. *)
DidNameStatic ==
    Did("static_read") \/ Did("static_write") \/ Did("static_share")

(* The side map only grows, every allocation id in it belongs to one *)
(* (static, thread) pair, and none is the static's own allocation.   *)
AllocIdsDistinct ==
    /\ \A j, k \in DOMAIN thread_local_alloc_ids :
         thread_local_alloc_ids[j] = thread_local_alloc_ids[k] => j = k
    /\ \A k \in DOMAIN thread_local_alloc_ids :
         /\ thread_local_alloc_ids[k] \in DOMAIN memory
         /\ \A d \in Statics : thread_local_alloc_ids[k] # StaticAllocId(d)

AllocIdsStable ==
    \A k \in DOMAIN thread_local_alloc_ids :
        /\ k \in DOMAIN thread_local_alloc_ids'
        /\ thread_local_alloc_ids'[k] = thread_local_alloc_ids[k]

(* Naming a static resolves to the active thread's own instance when the *)
(* static is thread-local and to the static's one allocation otherwise;  *)
(* a read returns that allocation's content and a write changes that     *)
(* allocation only.                                                      *)
NameResolves ==
    DidNameStatic
        => LET d == last'.obj
               id == IF is_thread_local(d)
                     THEN thread_local_alloc_ids'[<<d, active_thread>>]
                     ELSE StaticAllocId(d)
           IN /\ err' = "none"
              /\ is_thread_local(d)
                   => /\ DOMAIN thread_local_alloc_ids' =
                           DOMAIN thread_local_alloc_ids
                               \cup {<<d, active_thread>>}
                      /\ id = RemappedAllocId(Machine, d)
              /\ ~is_thread_local(d)
                   => thread_local_alloc_ids' = thread_local_alloc_ids
              /\ Did("static_read")
                   => /\ last'.ret = ToString(memory'[id].value)
                      /\ \A c \in DOMAIN memory : memory'[c] = memory[c]
              /\ Did("static_write")
                   => /\ last'.arg = ToString(memory'[id].value)
                      /\ memory'[id].writer = Some(active_thread)
                      /\ \A c \in DOMAIN memory \ {id} :
                           memory'[c] = memory[c]
              /\ Did("static_share")
                   => /\ last'.ret = ToString(id)
                      /\ pointers' = pointers \cup {id}

(* C33 as stated: the allocation id of a thread-local static is the same *)
(* on every call under the same active thread and distinct under         *)
(* different active threads, and no thread ever reads an allocation that *)
(* holds another thread's write to that thread's own instance of a       *)
(* thread-local static.                                                  *)
C33_NeverObservedByOthers ==
    [][/\ AllocIdsDistinct'
       /\ AllocIdsStable
       /\ NameResolves
       /\ \A id \in DOMAIN memory :
            CellRead(id)
                => \A t \in DOMAIN threads \ {active_thread} :
                     ~(id \in InstancesOf(t)
                         /\ memory[id].writer = Some(t))]_vars

(* C33: the allocation id of a thread-local static is the same on every  *)
(* call under the same active thread, distinct under different active    *)
(* threads and distinct from the static's own allocation; an access by   *)
(* name to a thread-local static reads or writes the active thread's own *)
(* instance only, and an access by name to an ordinary static reads or   *)
(* writes the one allocation all threads share.  Only a read through a   *)
(* pointer reaches another thread's instance.                            *)
C33_IsolatedByName ==
    [][/\ AllocIdsDistinct'
       /\ AllocIdsStable
       /\ NameResolves
       /\ \A id \in DOMAIN memory :
            (CellRead(id) /\ Did("static_read"))
                => \A t \in DOMAIN threads \ {active_thread} :
                     id \notin InstancesOf(t)]_vars

(* Thread 1 has read A by name and found its initial value, while the *)
(* main thread's instance of A holds what the main thread wrote and C  *)
(* holds what thread 1 wrote.                                         *)
C33_Witness ==
    /\ last.op = "static_read"
    /\ last.obj = "A"
    /\ last.th = 1
    /\ last.ret = ToString(StaticInit)
    /\ <<"A", MAIN_THREAD>> \in DOMAIN thread_local_alloc_ids
    /\ <<"A", 1>> \in DOMAIN thread_local_alloc_ids
    /\ memory[thread_local_alloc_ids[<<"A", MAIN_THREAD>>]].writer
           = Some(MAIN_THREAD)
    /\ memory[StaticAllocId("C")].writer = Some(1)

(* A step in which get_next_callback_wait_time was called. *)
DidAskWaitTime ==
    sched = "Schedule" /\ last'.op = "get_next_callback_wait_time"

(* C34: get_next_callback_wait_time returns None when the timeout table *)
(* is empty and otherwise the smallest wait time among all pending      *)
(* callbacks, whichever entry the table yields first.                   *)
C34_SmallestWaitTime ==
    [][DidAskWaitTime
        => last'.ret =
             IF timeout_callbacks = {} THEN "None"
             ELSE ToString(Min({get_wait_time(c, now) :
                                   c \in timeout_callbacks}))]_vars

(* The threads whose callback is due. *)
DueThreads == {c.thread : c \in {d \in timeout_callbacks : d.call_time <= now}}

(* get_ready_callback applied to the current timeout table and clock. *)
ReadyNow == get_ready_callback(Machine, now)

(* C35: get_ready_callback returns None when no registered call_time has *)
(* passed, and otherwise the callback of the lowest-numbered thread      *)
(* whose call_time has passed, whatever the call_times of the others;    *)
(* running it takes exactly that entry out of the timeout table, and     *)
(* with no callback due the table is left as it was.                     *)
C35_LowestReadyThread ==
    [][/\ (DueThreads = {}) <=> (ReadyNow = None)
       /\ ReadyNow # None
            => /\ The(ReadyNow) \in timeout_callbacks
               /\ The(ReadyNow).call_time <= now
               /\ The(ReadyNow).thread = Min(DueThreads)
       /\ DidRunCallback
            => IF ReadyNow = None
               THEN timeout_callbacks' = timeout_callbacks
               ELSE /\ timeout_callbacks' =
                           timeout_callbacks \ {The(ReadyNow)}
                    /\ CallbackMachine(Machine, The(ReadyNow))
                           .timeout_callbacks = timeout_callbacks'
                    /\ last'.th = Min(DueThreads)]_vars

(* The callback of the main thread has run although the callback of *)
(* thread 1, still pending, was due earlier.                        *)
C35_Witness ==
    /\ last.op = "run_timeout_callback"
    /\ last.th = MAIN_THREAD
    /\ \E c \in timeout_callbacks :
         /\ c.thread = 1
         /\ ToString(c.call_time) # last.arg
         /\ \A t \in 0..MaxTime : last.arg = ToString(t) => c.call_time < t

(* C36: in every reachable state in which no fatal error has occurred, *)
(* an rwlock that has neither a writer nor a reader has an empty writer *)
(* queue and an empty reader queue.                                     *)
C36_FreeRwlockHasNoWaiters ==
    \A id \in DOMAIN rwlocks :
        (/\ err = "none"
         /\ rwlocks[id].writer = None
         /\ DOMAIN rwlocks[id].readers = {})
            => /\ rwlocks[id].writer_queue = <<>>
               /\ rwlocks[id].reader_queue = <<>>

(* C37: schedule() returns ExecuteTimeoutCallback only when no thread is *)
(* Enabled, and a callback is run only when no thread is Enabled; so     *)
(* while some thread is Enabled no callback is run, however long its     *)
(* call_time has passed, and a thread whose callback is still registered *)
(* (sleeping in nanosleep or waiting in pthread_cond_timedwait) is       *)
(* BlockedOnSync.                                                        *)
C37_TimeoutsOnlyWhenIdle ==
    [][/\ (DidSchedule /\ sched' = "ExecuteTimeoutCallback")
            => NoneEnabled /\ threads' = threads
       /\ DidRunCallback => NoneEnabled
       /\ ~NoneEnabled
            => \A c \in timeout_callbacks :
                 /\ threads[c.thread].state = BlockedOnSync
                 /\ c \in timeout_callbacks'
                      => threads'[c.thread].state = BlockedOnSync]_vars

(* A thread has been given a step although the callbacks of a sleeper *)
(* and of a timed waiter are both due; both are still BlockedOnSync.  *)
C37_Witness ==
    /\ last.op = "schedule"
    /\ last.ret = "ExecuteStep"
    /\ threads[active_thread].state = Enabled
    /\ \E c, d \in timeout_callbacks :
         /\ c.callback.kind = "nanosleep"
         /\ d.callback.kind = "timedwait"
         /\ c.call_time <= now
         /\ d.call_time <= now
         /\ threads[c.thread].state = BlockedOnSync
         /\ threads[d.thread].state = BlockedOnSync

(* C38: in every reachable state in which no fatal error has occurred, *)
(* a mutex that is unlocked has an empty waiter queue.                  *)
C38_UnlockedMutexHasNoWaiters ==
    err = "none"
        => \A m \in DOMAIN mutexes :
             mutexes[m].owner = None => mutexes[m].queue = <<>>

(* The mutex has just been unlocked and is free with nobody queued, *)
(* after a timed wait on it has timed out in some other thread and *)
(* while a third thread still waits on the condition variable.     *)
C38_Witness ==
    /\ last.op = "pthread_mutex_unlock"
    /\ last.ret = "0"
    /\ err = "none"
    /\ \E m \in DOMAIN mutexes :
         mutexes[m].owner = None /\ mutexes[m].queue = <<>>
    /\ \E t \in DOMAIN threads : t # last.th /\ slot[t] = "ETIMEDOUT"
    /\ \E c \in DOMAIN condvars : condvars[c].waiters # <<>>

(* C39: in every reachable state neither the assertion of block_thread  *)
(* (the thread is Enabled) nor that of unblock_thread (the thread is    *)
(* BlockedOnSync) has failed, and every step that takes a thread out of *)
(* BlockedOnSync finds it there exactly once: the thread is afterwards  *)
(* Enabled and in no waiter queue, or the step failed.                  *)
C39_BlockUnblockAssertionsHold ==
    [][/\ err' # "Panic in block_thread"
       /\ err' # "Panic in unblock_thread"
       /\ \A t \in DOMAIN threads :
            (threads[t].state = BlockedOnSync
                /\ threads'[t].state # BlockedOnSync)
                => threads'[t].state = Enabled]_vars

(* A writer has unlocked an rwlock and woken two queued readers at once. *)
C39_Witness ==
    /\ last.op = "pthread_rwlock_unlock"
    /\ last.ret = "0"
    /\ err = "none"
    /\ \E id \in DOMAIN rwlocks :
         /\ rwlocks[id].reader_queue = <<>>
         /\ Cardinality(DOMAIN rwlocks[id].readers) = 2
         /\ \A t \in DOMAIN rwlocks[id].readers : threads[t].state = Enabled
    /\ DOMAIN threads = 0..2

(* C40: when the active thread has called sched_yield and no other      *)
(* thread is Enabled, the next schedule() keeps the same active thread, *)
(* returns ExecuteStep (neither Deadlock nor ExecuteTimeoutCallback,    *)
(* whatever callbacks are pending) and clears the yield flag.           *)
C40_SoleYielderContinues ==
    [][(/\ DidSchedule
        /\ last.op = "sched_yield"
        /\ yield_active_thread
        /\ \A t \in DOMAIN threads \ {active_thread} :
             threads[t].state # Enabled)
        => /\ sched' = "ExecuteStep"
           /\ err' = "none"
           /\ active_thread' = active_thread
           /\ ~yield_active_thread'
           /\ threads' = threads
           /\ timeout_callbacks' = timeout_callbacks]_vars

(* A thread that yielded has been scheduled again at once: every other *)
(* thread is blocked, one of them asleep with its callback due.        *)
C40_Witness ==
    /\ last.op = "schedule"
    /\ last.arg = "yield"
    /\ last.ret = "ExecuteStep"
    /\ last.th = active_thread
    /\ ~yield_active_thread
    /\ DOMAIN threads # {active_thread}
    /\ \A t \in DOMAIN threads \ {active_thread} :
         threads[t].state # Enabled
    /\ \E c \in timeout_callbacks :
         c.call_time <= now /\ threads[c.thread].state = BlockedOnSync

====
